---- MODULE Spec2Model ----
(***************************************************************************)
(* A model of contracts/SavingsPlan.sol (with the MockUSDC token and the   *)
(* MockYieldProtocol it is tested against) as a state machine.             *)
(*                                                                         *)
(* Units.  Time is counted in hours (block.timestamp / 3600), so that      *)
(* "1 hours" is 1 and "1 days" is 24.  Token amounts are integers of the   *)
(* token's smallest unit and every division rounds down on them as the     *)
(* code's does; the runs use small amounts, and the figures the code and   *)
(* its test fixture give for a 6-decimals token (the 1e6 tolerance of      *)
(* _verifyAccounting, the 1 USDC and 100 USDC limits) are divided by 10^6. *)
(* Every transaction is atomic: a call that reverts changes no state and   *)
(* is modelled as an action that is not enabled; the operator              *)
(* <Handler>Revert gives the error the code raises, "none" if it runs.     *)
(***************************************************************************)
EXTENDS Integers, Sequences, FiniteSets, TLC

\* ------------------------------------------------------------------ time
HOUR == 1
DAY == 24

\* ------------------------------------------------- contract constants
PLAN_DURATION_1_MONTH == 30 * DAY
PLAN_DURATION_3_MONTHS == 90 * DAY
PLAN_DURATION_6_MONTHS == 180 * DAY
PLAN_DURATION_1_YEAR == 365 * DAY
MAX_EARLY_WITHDRAWAL_PENALTY == 5000
MIN_YIELD_DEPOSIT_THRESHOLD == 1000
BPS == 10000
ACCOUNTING_TOLERANCE == 1

\* PlanDuration enum values 0..3 and the day count of each
PlanDurations == {0, 1, 2, 3}

DurationOf(d) ==
    CASE d = 0 -> PLAN_DURATION_1_MONTH
      [] d = 1 -> PLAN_DURATION_3_MONTHS
      [] d = 2 -> PLAN_DURATION_6_MONTHS
      [] d = 3 -> PLAN_DURATION_1_YEAR

\* --------------------------------------------- deployment (test fixture)
CTOR_EARLY_WITHDRAWAL_PENALTY == 1000
CTOR_MIN_DAILY_DEDUCTION == 1
CTOR_MAX_DAILY_DEDUCTION == 100
CTOR_PROTOCOL_FEE_BPS == 500
CTOR_USER_YIELD_SHARE_BPS == 9000
CTOR_EMERGENCY_DELAY == 48 * HOUR
CTOR_HARVEST_INTERVAL == 1 * DAY
MOCK_APY == 500

\* addresses
CONTRACT == "savingsPlan"
YIELD == "yieldProtocol"
DEPLOYER == "owner"
\* accounts that call the contract; the deployer holds every role and
\* "emergencyRole" is granted EMERGENCY_ROLE by the fixture
Accounts == {"owner", "user1", "emergencyRole"}
Addresses == Accounts \cup {CONTRACT, YIELD}
DefaultAdmins == {DEPLOYER}
EmergencyAdmins == {DEPLOYER, "emergencyRole"}
PlanCreators == {"owner", "user1"}

\* ---------------------------------------------------------------- bounds
MaxPlans == 2
MaxMissed == 2
MaxRequests == 1
MaxExecutions == 2
UnlimitedAllowance == 1000000
InitialFunds == 400

Min(a, b) == IF a < b THEN a ELSE b

VARIABLES
    now,                    \* block.timestamp, in hours
    paused,                 \* Pausable._paused
    yieldProtocolSet,       \* address(yieldProtocol) != address(0)
    totalPlans,
    plans,                  \* planId -> Plan, for 1..totalPlans
    userPlans,              \* owner -> sequence of plan ids
    earlyWithdrawalPenalty,
    minDailyDeduction,
    maxDailyDeduction,
    userYieldShareBps,
    minYieldDepositThreshold,
    emergencyWithdrawalDelay,
    yieldHarvestInterval,
    lastYieldHarvest,
    totalPrincipal,
    totalUserYield,
    totalProtocolYield,
    totalYieldShares,
    emergencyWithdrawals,   \* withdrawalId -> EmergencyWithdrawal
    usdc,                   \* MockUSDC balanceOf
    allowance,              \* MockUSDC allowance(account, savingsPlan)
    ypTotalDeposited,       \* MockYieldProtocol.totalDeposited
    ypTotalShares,          \* MockYieldProtocol.totalShares
    ypShares,               \* MockYieldProtocol.shares[savingsPlan]
    ypHealthy,              \* MockYieldProtocol.isHealthyFlag
    ypReverts,              \* a yield source every call of which reverts
    ypFailing,              \* the calls of the yield source that revert
    executedCount,          \* history: successful executions per withdrawalId
    cancelledIds            \* history: withdrawalIds whose cancel succeeded

configVars == <<earlyWithdrawalPenalty, minDailyDeduction, maxDailyDeduction,
                userYieldShareBps, yieldHarvestInterval>>
planVars == <<totalPlans, plans, userPlans>>
poolVars == <<totalPrincipal, totalUserYield, totalProtocolYield,
              totalYieldShares, lastYieldHarvest>>
tokenVars == <<usdc, allowance>>
yieldVars == <<ypTotalDeposited, ypTotalShares, ypShares>>
sourceVars == <<yieldProtocolSet, ypHealthy, ypReverts, ypFailing>>
emergencyVars == <<emergencyWithdrawals, executedCount, cancelledIds>>

vars == <<now, paused, minYieldDepositThreshold, emergencyWithdrawalDelay,
          configVars, planVars, poolVars, tokenVars, yieldVars, sourceVars,
          emergencyVars>>

\* ------------------------------------------------------------ MockUSDC
\* ERC20 transfer(from -> to); the caller checks the balance first
Transfer(bal, from, to, amount) ==
    IF from = to THEN bal
    ELSE [bal EXCEPT ![from] = @ - amount, ![to] = @ + amount]

\* ERC20 _spendAllowance: an allowance of type(uint256).max is not reduced
SpendAllowance(a, amount) ==
    IF a = UnlimitedAllowance THEN a ELSE a - amount

\* --------------------------------------------------- MockYieldProtocol
\* The pool "world" the yield helpers thread through a transaction:
\*   bal  token balances          dep  totalDeposited   tsh  totalShares
\*   shr  shares[savingsPlan]     tys  SavingsPlan.totalYieldShares
\*   ok   FALSE when the transaction has reverted
World ==
    [bal |-> usdc, dep |-> ypTotalDeposited, tsh |-> ypTotalShares,
     shr |-> ypShares, tys |-> totalYieldShares, ok |-> TRUE]

\* getBalance(): totalDeposited plus the simulated yield on it
MockGetBalance(dep) ==
    dep + ((dep * MOCK_APY * 365) \div (BPS * 365))

\* deposit(amount) reverts when the token transfer does, and when the
\* source is one that fails
MockDepositReverts(w, amount) ==
    ypReverts \/ "deposit" \in ypFailing \/ w.bal[CONTRACT] < amount

MockDeposit(w, amount) ==
    [w EXCEPT !.bal = Transfer(w.bal, CONTRACT, YIELD, amount),
              !.shr = @ + amount,
              !.dep = @ + amount,
              !.tsh = @ + amount]

\* withdraw(shares): the amount paid for the shares
MockWithdrawPrincipal(w, shares) == (shares * w.dep) \div w.tsh

MockWithdrawAmount(w, shares) ==
    LET principal == MockWithdrawPrincipal(w, shares)
    IN  principal + ((principal * MOCK_APY * 365) \div (BPS * 365))

\* withdraw(shares) reverts on too few shares, on totalShares = 0 (division
\* by zero) and when the protocol does not hold the tokens to pay
MockWithdrawReverts(w, shares) ==
    \/ ypReverts
    \/ "withdraw" \in ypFailing
    \/ w.shr < shares
    \/ w.tsh = 0
    \/ w.bal[YIELD] < MockWithdrawAmount(w, shares)

MockWithdraw(w, shares) ==
    [w EXCEPT !.bal = Transfer(w.bal, YIELD, CONTRACT, MockWithdrawAmount(w, shares)),
              !.shr = @ - shares,
              !.tsh = @ - shares,
              !.dep = @ - MockWithdrawPrincipal(w, shares)]

\* emergencyWithdraw(): every token the protocol holds goes to the caller;
\* shares[caller] is left as it was
MockEmergencyWithdraw(w) ==
    [w EXCEPT !.bal = Transfer(w.bal, YIELD, CONTRACT, w.bal[YIELD]),
              !.dep = 0,
              !.tsh = 0]

\* emergencyWithdraw() of the mock never reverts; that of a failing source
\* does
MockEmergencyWithdrawReverts ==
    ypReverts \/ "emergencyWithdraw" \in ypFailing

\* ------------------------------------------- SavingsPlan yield helpers
\* _depositToYield(amount)
DepositToYield(w, amount) ==
    IF ~yieldProtocolSet \/ amount = 0 THEN w
    ELSE IF MockDepositReverts(w, amount) THEN w
    ELSE [MockDeposit(w, amount) EXCEPT !.tys = @ + amount]

\* shares redeemed by _withdrawFromYield(amount)
SharesToWithdraw(w, amount) ==
    Min((amount * w.tys) \div MockGetBalance(w.dep), w.tys)

\* faulty variant: a fallback that failed still resets totalYieldShares
WithdrawFromYieldResetting(w, amount) ==
    IF ~yieldProtocolSet \/ w.tys = 0 THEN w
    ELSE IF ypReverts THEN [w EXCEPT !.ok = FALSE]
    ELSE IF MockGetBalance(w.dep) = 0 THEN w
    ELSE LET s == SharesToWithdraw(w, amount)
         IN  IF ~MockWithdrawReverts(w, s)
             THEN [MockWithdraw(w, s) EXCEPT !.tys = @ - s]
             ELSE IF MockEmergencyWithdrawReverts
             THEN [w EXCEPT !.tys = 0]
             ELSE [MockEmergencyWithdraw(w) EXCEPT !.tys = 0]

\* _withdrawFromYield(amount); getBalance() is called outside any try
WithdrawFromYield(w, amount) ==
    IF ~yieldProtocolSet \/ w.tys = 0 THEN w
    ELSE IF ypReverts THEN [w EXCEPT !.ok = FALSE]
    ELSE IF MockGetBalance(w.dep) = 0 THEN w
    ELSE LET s == SharesToWithdraw(w, amount)
         IN  IF ~MockWithdrawReverts(w, s)
             THEN [MockWithdraw(w, s) EXCEPT !.tys = @ - s]
             ELSE IF MockEmergencyWithdrawReverts
             THEN w
             ELSE [MockEmergencyWithdraw(w) EXCEPT !.tys = 0]

\* the "withdraw from yield protocol if needed" step shared by withdraw,
\* claimYield and executeEmergencyWithdrawal
PullIfNeeded(w, amount) ==
    IF amount > w.bal[CONTRACT] /\ yieldProtocolSet
    THEN WithdrawFromYield(w, amount - w.bal[CONTRACT])
    ELSE w

\* ---------------------------------------------------------------- Init
InitWith(funds, approved) ==
    /\ now = DAY
    /\ paused = FALSE
    /\ yieldProtocolSet = FALSE
    /\ totalPlans = 0
    /\ plans = <<>>
    /\ userPlans = [a \in Accounts |-> <<>>]
    /\ earlyWithdrawalPenalty = CTOR_EARLY_WITHDRAWAL_PENALTY
    /\ minDailyDeduction = CTOR_MIN_DAILY_DEDUCTION
    /\ maxDailyDeduction = CTOR_MAX_DAILY_DEDUCTION
    /\ userYieldShareBps = CTOR_USER_YIELD_SHARE_BPS
    /\ minYieldDepositThreshold = MIN_YIELD_DEPOSIT_THRESHOLD
    /\ emergencyWithdrawalDelay = CTOR_EMERGENCY_DELAY
    /\ yieldHarvestInterval = CTOR_HARVEST_INTERVAL
    /\ lastYieldHarvest = 0
    /\ totalPrincipal = 0
    /\ totalUserYield = 0
    /\ totalProtocolYield = 0
    /\ totalYieldShares = 0
    /\ emergencyWithdrawals = <<>>
    /\ usdc = [a \in Addresses |-> IF a \in PlanCreators THEN funds ELSE 0]
    /\ allowance = [a \in Accounts |-> IF a \in PlanCreators THEN approved ELSE 0]
    /\ ypTotalDeposited = 0
    /\ ypTotalShares = 0
    /\ ypShares = 0
    /\ ypHealthy = TRUE
    /\ ypReverts = FALSE
    /\ ypFailing = {}
    /\ executedCount = <<>>
    /\ cancelledIds = {}

\* the state after deployment, the plan creators holding InitialFunds tokens
\* and having approved type(uint256).max
Init == InitWith(InitialFunds, UnlimitedAllowance)

\* ------------------------------------------------------------- modifiers
\* validPlanId
ValidPlanId(planId) == planId # 0 /\ planId <= totalPlans

\* ------------------------------------------------------------ createPlan
CreatePlanRevert(dailyAmount, duration) ==
    IF paused THEN "EnforcedPause"
    ELSE IF dailyAmount < minDailyDeduction \/ dailyAmount > maxDailyDeduction
    THEN "InvalidDailyAmount"
    ELSE IF duration \notin PlanDurations THEN "InvalidPlanDuration"
    ELSE "none"

\* faulty variant: totalTarget counts the hours of the plan, not its days
NewPlanTargetInHours(caller, dailyAmount, duration) ==
    [owner |-> caller,
     dailyAmount |-> dailyAmount,
     startDate |-> now,
     endDate |-> now + DurationOf(duration),
     totalTarget |-> dailyAmount * DurationOf(duration),
     accumulatedBalance |-> 0,
     principalDeposited |-> 0,
     yieldEarned |-> 0,
     lastDeductionDate |-> 0,
     successfulDeductions |-> 0,
     missedDeductions |-> 0,
     isActive |-> TRUE,
     isCompleted |-> FALSE,
     duration |-> duration]

NewPlan(caller, dailyAmount, duration) ==
    [owner |-> caller,
     dailyAmount |-> dailyAmount,
     startDate |-> now,
     endDate |-> now + DurationOf(duration),
     totalTarget |-> dailyAmount * (DurationOf(duration) \div DAY),
     accumulatedBalance |-> 0,
     principalDeposited |-> 0,
     yieldEarned |-> 0,
     lastDeductionDate |-> 0,
     successfulDeductions |-> 0,
     missedDeductions |-> 0,
     isActive |-> TRUE,
     isCompleted |-> FALSE,
     duration |-> duration]

CreatePlan(caller, dailyAmount, duration) ==
    /\ totalPlans < MaxPlans
    /\ CreatePlanRevert(dailyAmount, duration) = "none"
    /\ totalPlans' = totalPlans + 1
    /\ plans' = Append(plans, NewPlan(caller, dailyAmount, duration))
    /\ userPlans' = [userPlans EXCEPT ![caller] = Append(@, totalPlans + 1)]
    /\ UNCHANGED <<now, paused, minYieldDepositThreshold, emergencyWithdrawalDelay,
                   configVars, poolVars, tokenVars, yieldVars, sourceVars,
                   emergencyVars>>

\* ERC20 totalSupply
RECURSIVE SumOver(_, _)
SumOver(bal, accounts) ==
    IF accounts = {} THEN 0
    ELSE LET a == CHOOSE x \in accounts : TRUE
         IN  bal[a] + SumOver(bal, accounts \ {a})

TotalSupply == SumOver(usdc, Addresses)

\* MockUSDC.mint(to, amount): anyone may mint to any address
Mint(to, amount) ==
    /\ usdc' = [usdc EXCEPT ![to] = @ + amount]
    /\ UNCHANGED <<now, paused, minYieldDepositThreshold, emergencyWithdrawalDelay,
                   configVars, planVars, poolVars, allowance, yieldVars, sourceVars,
                   emergencyVars>>

\* MockUSDC.approve(savingsPlan, amount) by an account
Approve(caller, amount) ==
    /\ allowance[caller] # amount
    /\ allowance' = [allowance EXCEPT ![caller] = amount]
    /\ UNCHANGED <<now, paused, minYieldDepositThreshold, emergencyWithdrawalDelay,
                   configVars, planVars, poolVars, usdc, yieldVars, sourceVars,
                   emergencyVars>>

\* ------------------------------------------------------ executeDeduction
\* faulty variant: the schedule advances by half a day per deduction
ExpectedDeductionDateHalfDay(p) ==
    p.startDate + ((p.successfulDeductions * DAY) \div 2)

ExpectedDeductionDate(p) == p.startDate + (p.successfulDeductions * DAY)

\* the owner cannot pay: balance or allowance below dailyAmount
Underfunded(p, bal, allow) ==
    bal[p.owner] < p.dailyAmount \/ allow[p.owner] < p.dailyAmount

\* the plan record after the maturity transition
CompletedPlan(p) == [p EXCEPT !.isActive = FALSE, !.isCompleted = TRUE]

\* faulty variant: a missed deduction also moves lastDeductionDate
MissedPlanMovingLastDate(p) ==
    [p EXCEPT !.missedDeductions = @ + 1, !.lastDeductionDate = now]

\* the plan record after a missed deduction
MissedPlan(p) == [p EXCEPT !.missedDeductions = @ + 1]

\* faulty variant: a deduction is not added to principalDeposited
DeductedPlanNoPrincipal(p) ==
    [p EXCEPT !.accumulatedBalance = @ + p.dailyAmount,
              !.lastDeductionDate = now,
              !.successfulDeductions = @ + 1]

\* the plan record after a successful deduction
DeductedPlan(p) ==
    [p EXCEPT !.accumulatedBalance = @ + p.dailyAmount,
              !.principalDeposited = @ + p.dailyAmount,
              !.lastDeductionDate = now,
              !.successfulDeductions = @ + 1]

\* the sweep at the end of a successful executeDeduction reads isHealthy()
SweepCallsSource(contractBalance) ==
    yieldProtocolSet /\ contractBalance >= minYieldDepositThreshold

\* faulty variant: maturity is not looked at, the call deducts at endDate
DeductionOutcomeNoMaturity(planId) ==
    LET p == plans[planId]
    IN  IF Underfunded(p, usdc, allowance) THEN "missed" ELSE "deducted"

\* what executeDeduction does when it does not revert:
\* "completed", "missed" or "deducted"
DeductionOutcome(planId) ==
    LET p == plans[planId]
    IN  IF now >= p.endDate THEN "completed"
        ELSE IF Underfunded(p, usdc, allowance) THEN "missed"
        ELSE "deducted"

\* faulty variant: the test for a premature call is missing
ExecuteDeductionRevertNoPremature(planId) ==
    IF ~ValidPlanId(planId) THEN "InvalidPlanId"
    ELSE IF paused THEN "EnforcedPause"
    ELSE LET p == plans[planId]
             expected == ExpectedDeductionDate(p)
         IN  IF ~p.isActive \/ p.isCompleted THEN "PlanNotActive"
             ELSE IF now >= p.endDate THEN "none"
             ELSE IF p.lastDeductionDate > 0 /\ now <= p.lastDeductionDate + HOUR
             THEN "DeductionAlreadyExecuted"
             ELSE IF p.lastDeductionDate > 0 /\ p.lastDeductionDate >= expected - HOUR
             THEN "DeductionAlreadyExecuted"
             ELSE IF Underfunded(p, usdc, allowance) THEN "none"
             ELSE IF SweepCallsSource(usdc[CONTRACT] + p.dailyAmount) /\ ypReverts
             THEN "YieldSourceReverted"
             ELSE "none"

ExecuteDeductionRevert(planId) ==
    IF ~ValidPlanId(planId) THEN "InvalidPlanId"
    ELSE IF paused THEN "EnforcedPause"
    ELSE LET p == plans[planId]
             expected == ExpectedDeductionDate(p)
         IN  IF ~p.isActive \/ p.isCompleted THEN "PlanNotActive"
             ELSE IF now >= p.endDate THEN "none"
             ELSE IF p.lastDeductionDate > 0 /\ now <= p.lastDeductionDate + HOUR
             THEN "DeductionAlreadyExecuted"
             ELSE IF p.lastDeductionDate > 0 /\ p.lastDeductionDate >= expected - HOUR
             THEN "DeductionAlreadyExecuted"
             ELSE IF now < expected - HOUR THEN "InvalidParameter"
             ELSE IF Underfunded(p, usdc, allowance) THEN "none"
             ELSE IF SweepCallsSource(usdc[CONTRACT] + p.dailyAmount) /\ ypReverts
             THEN "YieldSourceReverted"
             ELSE "none"

\* faulty variant: the sweep does not ask the source whether it is healthy
WorldAfterDeductionAnyHealth(p) ==
    LET w1 == [World EXCEPT !.bal = Transfer(usdc, p.owner, CONTRACT, p.dailyAmount)]
        contractBalance == w1.bal[CONTRACT]
    IN  IF SweepCallsSource(contractBalance)
        THEN DepositToYield(w1, contractBalance)
        ELSE w1

\* the pool after the owner's dailyAmount has come in and been swept
WorldAfterDeduction(p) ==
    LET w1 == [World EXCEPT !.bal = Transfer(usdc, p.owner, CONTRACT, p.dailyAmount)]
        contractBalance == w1.bal[CONTRACT]
    IN  IF SweepCallsSource(contractBalance) /\ ypHealthy
        THEN DepositToYield(w1, contractBalance)
        ELSE w1

ExecuteDeduction(planId) ==
    /\ ExecuteDeductionRevert(planId) = "none"
    /\ LET p == plans[planId]
           outcome == DeductionOutcome(planId)
           w == WorldAfterDeduction(p)
       IN  CASE outcome = "completed" ->
                  /\ plans' = [plans EXCEPT ![planId] = CompletedPlan(p)]
                  /\ UNCHANGED <<totalPrincipal, totalYieldShares, tokenVars, yieldVars>>
             [] outcome = "missed" ->
                  /\ p.missedDeductions < MaxMissed
                  /\ plans' = [plans EXCEPT ![planId] = MissedPlan(p)]
                  /\ UNCHANGED <<totalPrincipal, totalYieldShares, tokenVars, yieldVars>>
             [] outcome = "deducted" ->
                  /\ plans' = [plans EXCEPT ![planId] = DeductedPlan(p)]
                  /\ totalPrincipal' = totalPrincipal + p.dailyAmount
                  /\ usdc' = w.bal
                  /\ allowance' = [allowance EXCEPT ![p.owner] = SpendAllowance(@, p.dailyAmount)]
                  /\ totalYieldShares' = w.tys
                  /\ ypTotalDeposited' = w.dep
                  /\ ypTotalShares' = w.tsh
                  /\ ypShares' = w.shr
    /\ UNCHANGED <<now, paused, minYieldDepositThreshold, emergencyWithdrawalDelay,
                   configVars, totalPlans, userPlans, totalUserYield,
                   totalProtocolYield, lastYieldHarvest, sourceVars, emergencyVars>>

\* --------------------------------------------------------- pause / unpause
Pause(caller) ==
    /\ caller \in DefaultAdmins
    /\ ~paused
    /\ paused' = TRUE
    /\ UNCHANGED <<now, minYieldDepositThreshold, emergencyWithdrawalDelay,
                   configVars, planVars, poolVars, tokenVars, yieldVars,
                   sourceVars, emergencyVars>>

Unpause(caller) ==
    /\ caller \in DefaultAdmins
    /\ paused
    /\ paused' = FALSE
    /\ UNCHANGED <<now, minYieldDepositThreshold, emergencyWithdrawalDelay,
                   configVars, planVars, poolVars, tokenVars, yieldVars,
                   sourceVars, emergencyVars>>

\* setEmergencyWithdrawalDelay: any value is accepted
SetEmergencyWithdrawalDelay(caller, delay) ==
    /\ caller \in DefaultAdmins
    /\ emergencyWithdrawalDelay # delay
    /\ emergencyWithdrawalDelay' = delay
    /\ UNCHANGED <<now, paused, minYieldDepositThreshold, configVars, planVars,
                   poolVars, tokenVars, yieldVars, sourceVars, emergencyVars>>

\* the block timestamp advances by d hours
Tick(d, horizon) ==
    /\ now + d <= horizon
    /\ now' = now + d
    /\ UNCHANGED <<paused, minYieldDepositThreshold, emergencyWithdrawalDelay,
                   configVars, planVars, poolVars, tokenVars, yieldVars,
                   sourceVars, emergencyVars>>

\* ------------------------------------------------ emergency withdrawals
\* withdrawalId = keccak256(abi.encodePacked(msg.sender, user, planId, amount,
\* block.timestamp, reasonHash)): the hash is taken to be injective, and an
\* id is the tuple it hashes
WithdrawalId(caller, user, planId, amount, reasonHash) ==
    <<caller, user, planId, amount, now, reasonHash>>

WithdrawalIds == DOMAIN emergencyWithdrawals

ScheduleEmergencyWithdrawalRevert(caller, user, planId) ==
    IF caller \notin EmergencyAdmins THEN "AccessControlUnauthorizedAccount"
    ELSE IF ~paused THEN "ExpectedPause"
    ELSE IF ~ValidPlanId(planId) THEN "InvalidPlanId"
    ELSE IF plans[planId].owner # user THEN "InvalidParameter"
    ELSE "none"

NewEmergencyWithdrawal(caller, user, planId, amount, reasonHash) ==
    [admin |-> caller,
     user |-> user,
     planId |-> planId,
     amount |-> amount,
     scheduledTime |-> now,
     executionTime |-> now + emergencyWithdrawalDelay,
     reasonHash |-> reasonHash,
     executed |-> FALSE,
     cancelled |-> FALSE]

\* emergencyWithdrawals[withdrawalId] = ...: the record is written whether
\* or not the id is already in use
StoreEmergencyWithdrawal(id, rec) ==
    [i \in WithdrawalIds \cup {id} |-> IF i = id THEN rec ELSE emergencyWithdrawals[i]]

ScheduleEmergencyWithdrawal(caller, user, planId, amount, reasonHash) ==
    LET id == WithdrawalId(caller, user, planId, amount, reasonHash)
    IN  /\ ScheduleEmergencyWithdrawalRevert(caller, user, planId) = "none"
        /\ id \in WithdrawalIds \/ Cardinality(WithdrawalIds) < MaxRequests
        /\ emergencyWithdrawals' =
             StoreEmergencyWithdrawal(id, NewEmergencyWithdrawal(caller, user, planId, amount, reasonHash))
        /\ emergencyWithdrawals' # emergencyWithdrawals
        /\ executedCount' =
             [i \in WithdrawalIds \cup {id} |-> IF i \in WithdrawalIds THEN executedCount[i] ELSE 0]
        /\ UNCHANGED <<now, paused, minYieldDepositThreshold, emergencyWithdrawalDelay,
                       configVars, planVars, poolVars, tokenVars, yieldVars,
                       sourceVars, cancelledIds>>

\* the amount executeEmergencyWithdrawal pays: 0 means everything, and a
\* larger request is clamped to what the plan holds
EmergencyAmount(req) ==
    LET p == plans[req.planId]
        available == p.accumulatedBalance + p.yieldEarned
    IN  IF req.amount = 0 \/ req.amount > available THEN available ELSE req.amount

\* faulty variant: the payout goes to the admin that scheduled the request
EmergencyRecipientAdmin(req) == req.admin

\* the account executeEmergencyWithdrawal transfers to
EmergencyRecipient(req) == req.user

\* faulty variant: the yield is debited first and the principal only for
\* the part exceeding it
EmergencyDebitedPlanYieldFirst(p, amount) ==
    IF amount >= p.yieldEarned
    THEN [p EXCEPT !.accumulatedBalance = @ - (amount - p.yieldEarned),
                   !.yieldEarned = 0,
                   !.isActive = FALSE,
                   !.isCompleted = TRUE]
    ELSE [p EXCEPT !.yieldEarned = @ - amount,
                   !.isActive = FALSE,
                   !.isCompleted = TRUE]

\* the plan record after an emergency withdrawal of amount
EmergencyDebitedPlan(p, amount) ==
    IF amount >= p.accumulatedBalance
    THEN [p EXCEPT !.yieldEarned = @ - (amount - p.accumulatedBalance),
                   !.accumulatedBalance = 0,
                   !.isActive = FALSE,
                   !.isCompleted = TRUE]
    ELSE [p EXCEPT !.accumulatedBalance = @ - amount,
                   !.isActive = FALSE,
                   !.isCompleted = TRUE]

\* faulty variant: the whenPaused modifier is missing
ExecuteEmergencyWithdrawalRevertNoPause(caller, id) ==
    IF caller \notin EmergencyAdmins THEN "AccessControlUnauthorizedAccount"
    ELSE IF id \notin WithdrawalIds THEN "InvalidEmergencyWithdrawal"
    ELSE LET req == emergencyWithdrawals[id]
         IN  IF req.executed THEN "EmergencyWithdrawalAlreadyExecuted"
             ELSE IF req.cancelled THEN "EmergencyWithdrawalIsCancelled"
             ELSE IF now < req.executionTime THEN "EmergencyWithdrawalNotReady"
             ELSE LET amount == EmergencyAmount(req)
                      w == PullIfNeeded(World, amount)
                  IN  IF ~w.ok THEN "YieldSourceReverted"
                      ELSE IF w.bal[CONTRACT] < amount THEN "ERC20InsufficientBalance"
                      ELSE "none"

\* faulty variant: the timelock test is missing
ExecuteEmergencyWithdrawalRevertNoTimelock(caller, id) ==
    IF caller \notin EmergencyAdmins THEN "AccessControlUnauthorizedAccount"
    ELSE IF ~paused THEN "ExpectedPause"
    ELSE IF id \notin WithdrawalIds THEN "InvalidEmergencyWithdrawal"
    ELSE IF emergencyWithdrawals[id].executed THEN "EmergencyWithdrawalAlreadyExecuted"
    ELSE IF emergencyWithdrawals[id].cancelled THEN "EmergencyWithdrawalIsCancelled"
    ELSE "none"

ExecuteEmergencyWithdrawalRevert(caller, id) ==
    IF caller \notin EmergencyAdmins THEN "AccessControlUnauthorizedAccount"
    ELSE IF ~paused THEN "ExpectedPause"
    ELSE IF id \notin WithdrawalIds THEN "InvalidEmergencyWithdrawal"
    ELSE LET req == emergencyWithdrawals[id]
         IN  IF req.executed THEN "EmergencyWithdrawalAlreadyExecuted"
             ELSE IF req.cancelled THEN "EmergencyWithdrawalIsCancelled"
             ELSE IF now < req.executionTime THEN "EmergencyWithdrawalNotReady"
             ELSE LET amount == EmergencyAmount(req)
                      w == PullIfNeeded(World, amount)
                  IN  IF ~w.ok THEN "YieldSourceReverted"
                      ELSE IF w.bal[CONTRACT] < amount THEN "ERC20InsufficientBalance"
                      ELSE "none"

ExecuteEmergencyWithdrawal(caller, id) ==
    /\ ExecuteEmergencyWithdrawalRevert(caller, id) = "none"
    /\ LET req == emergencyWithdrawals[id]
           amount == EmergencyAmount(req)
           w == PullIfNeeded(World, amount)
       IN  /\ plans' = [plans EXCEPT ![req.planId] = EmergencyDebitedPlan(@, amount)]
           /\ emergencyWithdrawals' = [emergencyWithdrawals EXCEPT ![id].executed = TRUE]
           /\ usdc' = Transfer(w.bal, CONTRACT, EmergencyRecipient(req), amount)
           /\ totalYieldShares' = w.tys
           /\ ypTotalDeposited' = w.dep
           /\ ypTotalShares' = w.tsh
           /\ ypShares' = w.shr
    /\ executedCount[id] < MaxExecutions
    /\ executedCount' = [executedCount EXCEPT ![id] = @ + 1]
    /\ UNCHANGED <<now, paused, minYieldDepositThreshold, emergencyWithdrawalDelay,
                   configVars, totalPlans, userPlans, totalPrincipal, totalUserYield,
                   totalProtocolYield, lastYieldHarvest, allowance, sourceVars,
                   cancelledIds>>

\* faulty variant: the test of the executed flag is missing
CancelEmergencyWithdrawalRevertAfterExecution(caller, id) ==
    IF caller \notin EmergencyAdmins THEN "AccessControlUnauthorizedAccount"
    ELSE IF id \notin WithdrawalIds THEN "InvalidEmergencyWithdrawal"
    ELSE IF emergencyWithdrawals[id].cancelled THEN "EmergencyWithdrawalIsCancelled"
    ELSE "none"

CancelEmergencyWithdrawalRevert(caller, id) ==
    IF caller \notin EmergencyAdmins THEN "AccessControlUnauthorizedAccount"
    ELSE IF id \notin WithdrawalIds THEN "InvalidEmergencyWithdrawal"
    ELSE IF emergencyWithdrawals[id].executed THEN "EmergencyWithdrawalAlreadyExecuted"
    ELSE IF emergencyWithdrawals[id].cancelled THEN "EmergencyWithdrawalIsCancelled"
    ELSE "none"

CancelEmergencyWithdrawal(caller, id) ==
    /\ CancelEmergencyWithdrawalRevert(caller, id) = "none"
    /\ emergencyWithdrawals' = [emergencyWithdrawals EXCEPT ![id].cancelled = TRUE]
    /\ cancelledIds' = cancelledIds \cup {id}
    /\ UNCHANGED <<now, paused, minYieldDepositThreshold, emergencyWithdrawalDelay,
                   configVars, planVars, poolVars, tokenVars, yieldVars,
                   sourceVars, executedCount>>

\* ---------------------------------------------------------------- withdraw
\* the amount a withdraw(planId, amount) call is for: 0 means everything
RequestedAmount(p, amount) ==
    IF amount = 0 THEN p.accumulatedBalance + p.yieldEarned ELSE amount

\* faulty variant: the penalty is also taken at or after endDate
WithdrawalPenaltyAlways(p, requested) ==
    (requested * earlyWithdrawalPenalty) \div BPS

\* the early withdrawal penalty on a requested amount
WithdrawalPenalty(p, requested) ==
    IF now < p.endDate THEN (requested * earlyWithdrawalPenalty) \div BPS ELSE 0

\* faulty variant: the requested amount is taken from the principal first
PrincipalToWithdrawFirst(p, requested) == Min(p.accumulatedBalance, requested)

\* the part of the requested amount taken from the plan's principal
PrincipalToWithdraw(p, requested) ==
    LET available == p.accumulatedBalance + p.yieldEarned
    IN  IF available > 0 THEN (p.accumulatedBalance * requested) \div available
        ELSE requested

\* the part of the requested amount taken from the plan's yield
YieldToWithdraw(p, requested) ==
    LET available == p.accumulatedBalance + p.yieldEarned
    IN  IF available > 0 THEN (p.yieldEarned * requested) \div available
        ELSE 0

\* faulty variant: withdraw also takes the principal out of principalDeposited
WithdrawnPlanReducingPrincipal(p, requested) ==
    LET debited == [p EXCEPT !.accumulatedBalance = @ - PrincipalToWithdraw(p, requested),
                             !.principalDeposited = @ - PrincipalToWithdraw(p, requested),
                             !.yieldEarned = @ - YieldToWithdraw(p, requested)]
    IN  IF debited.accumulatedBalance = 0 /\ debited.yieldEarned = 0
        THEN [debited EXCEPT !.isActive = FALSE, !.isCompleted = TRUE]
        ELSE debited

\* the plan record after withdraw has debited it
WithdrawnPlan(p, requested) ==
    LET debited == [p EXCEPT !.accumulatedBalance = @ - PrincipalToWithdraw(p, requested),
                             !.yieldEarned = @ - YieldToWithdraw(p, requested)]
    IN  IF debited.accumulatedBalance = 0 /\ debited.yieldEarned = 0
        THEN [debited EXCEPT !.isActive = FALSE, !.isCompleted = TRUE]
        ELSE debited

\* the pool after withdraw has fetched what it is short of from the source
WorldAfterWithdraw(p, amount) ==
    LET requested == RequestedAmount(p, amount)
    IN  PullIfNeeded(World, requested - WithdrawalPenalty(p, requested))

\* faulty variant: the onlyPlanOwner modifier is missing
WithdrawRevertAnyCaller(caller, planId, amount) ==
    IF ~ValidPlanId(planId) THEN "InvalidPlanId"
    ELSE LET p == plans[planId]
             requested == RequestedAmount(p, amount)
             paid == requested - WithdrawalPenalty(p, requested)
             w == WorldAfterWithdraw(p, amount)
         IN  IF ~p.isActive /\ p.isCompleted THEN "PlanNotActive"
             ELSE IF requested > p.accumulatedBalance + p.yieldEarned
             THEN "InvalidWithdrawalAmount"
             ELSE IF ~w.ok THEN "YieldSourceReverted"
             ELSE IF w.bal[CONTRACT] < paid THEN "ERC20InsufficientBalance"
             ELSE "none"

WithdrawRevert(caller, planId, amount) ==
    IF ~ValidPlanId(planId) THEN "InvalidPlanId"
    ELSE IF plans[planId].owner # caller THEN "Unauthorized"
    ELSE LET p == plans[planId]
             requested == RequestedAmount(p, amount)
             paid == requested - WithdrawalPenalty(p, requested)
             w == WorldAfterWithdraw(p, amount)
         IN  IF ~p.isActive /\ p.isCompleted THEN "PlanNotActive"
             ELSE IF requested > p.accumulatedBalance + p.yieldEarned
             THEN "InvalidWithdrawalAmount"
             ELSE IF ~w.ok THEN "YieldSourceReverted"
             ELSE IF w.bal[CONTRACT] < paid THEN "ERC20InsufficientBalance"
             ELSE "none"

Withdraw(caller, planId, amount) ==
    /\ WithdrawRevert(caller, planId, amount) = "none"
    /\ LET p == plans[planId]
           requested == RequestedAmount(p, amount)
           paid == requested - WithdrawalPenalty(p, requested)
           w == WorldAfterWithdraw(p, amount)
       IN  /\ plans' = [plans EXCEPT ![planId] = WithdrawnPlan(p, requested)]
           /\ usdc' = Transfer(w.bal, CONTRACT, p.owner, paid)
           /\ totalYieldShares' = w.tys
           /\ ypTotalDeposited' = w.dep
           /\ ypTotalShares' = w.tsh
           /\ ypShares' = w.shr
    /\ UNCHANGED <<now, paused, minYieldDepositThreshold, emergencyWithdrawalDelay,
                   configVars, totalPlans, userPlans, totalPrincipal, totalUserYield,
                   totalProtocolYield, lastYieldHarvest, allowance, sourceVars,
                   emergencyVars>>

\* -------------------------------------------------------------- claimYield
\* _calculateTimeFactor: timeElapsed and planDuration (their quotient is
\* the same in hours as in seconds)
PlanDuration(p) == p.endDate - p.startDate

TimeElapsed(p) ==
    IF now > p.endDate THEN PlanDuration(p) ELSE now - p.startDate

\* PRECISION = 1e18 modulo d, computed from 1e9 to stay within 32 bits
PrecisionMod(d) == ((1000000000 % d) * (1000000000 % d)) % d

\* the remainder of timeElapsed * PRECISION / planDuration: the time factor
\* is rounded down exactly when it is not 0
TimeFactorRemainder(p) ==
    (TimeElapsed(p) * PrecisionMod(PlanDuration(p))) % PlanDuration(p)

\* userShare of _calculateAndDistributeYield
UserShare(p) == (p.principalDeposited * totalYieldShares) \div totalPrincipal

\* (userShare * totalYield * timeFactor) / (totalYieldShares * PRECISION)
\* with timeFactor = (timeElapsed * PRECISION) / planDuration.  For the
\* amounts of this model userShare * totalYield * planDuration < PRECISION,
\* so the rounding of the time factor lowers the quotient
\* userShare * totalYield * timeElapsed / (totalYieldShares * planDuration)
\* by less than one part in its denominator: the result is that quotient
\* rounded down, less 1 when the quotient is whole and the time factor was
\* rounded.
GrossYield(p, totalYield) ==
    LET n == UserShare(p) * totalYield * TimeElapsed(p)
        m == totalYieldShares * PlanDuration(p)
    IN  IF n > 0 /\ n % m = 0 /\ TimeFactorRemainder(p) # 0
        THEN (n \div m) - 1
        ELSE n \div m

\* _calculateAndDistributeYield(planId): the yield credited to the plan
CalculatedYield(p) ==
    IF p.principalDeposited = 0 THEN 0
    ELSE IF totalPrincipal = 0 \/ totalYieldShares = 0 THEN 0
    ELSE IF MockGetBalance(ypTotalDeposited) <= totalPrincipal THEN 0
    ELSE (GrossYield(p, MockGetBalance(ypTotalDeposited) - totalPrincipal)
             * userYieldShareBps) \div BPS

\* _calculateAndDistributeYield reaches yieldProtocol.getBalance()
YieldReadsSource(p) ==
    p.principalDeposited # 0 /\ totalPrincipal # 0 /\ totalYieldShares # 0

\* faulty variant: a claim that would pay nothing is rejected
ClaimYieldRevertOnZero(caller, planId) ==
    IF ~ValidPlanId(planId) THEN "InvalidPlanId"
    ELSE IF plans[planId].owner # caller THEN "Unauthorized"
    ELSE LET p == plans[planId]
             w == PullIfNeeded(World, CalculatedYield(p))
         IN  IF ~p.isActive /\ ~p.isCompleted THEN "PlanNotActive"
             ELSE IF YieldReadsSource(p) /\ (~yieldProtocolSet \/ ypReverts)
             THEN "YieldSourceReverted"
             ELSE IF CalculatedYield(p) = 0 THEN "NoYieldToClaim"
             ELSE IF ~w.ok THEN "YieldSourceReverted"
             ELSE IF w.bal[CONTRACT] < CalculatedYield(p) THEN "ERC20InsufficientBalance"
             ELSE "none"

ClaimYieldRevert(caller, planId) ==
    IF ~ValidPlanId(planId) THEN "InvalidPlanId"
    ELSE IF plans[planId].owner # caller THEN "Unauthorized"
    ELSE LET p == plans[planId]
             w == PullIfNeeded(World, CalculatedYield(p))
         IN  IF ~p.isActive /\ ~p.isCompleted THEN "PlanNotActive"
             ELSE IF YieldReadsSource(p) /\ (~yieldProtocolSet \/ ypReverts)
             THEN "YieldSourceReverted"
             ELSE IF CalculatedYield(p) = 0 THEN "none"
             ELSE IF ~w.ok THEN "YieldSourceReverted"
             ELSE IF w.bal[CONTRACT] < CalculatedYield(p) THEN "ERC20InsufficientBalance"
             ELSE "none"

ClaimYield(caller, planId) ==
    /\ ClaimYieldRevert(caller, planId) = "none"
    /\ LET p == plans[planId]
           yieldAmount == CalculatedYield(p)
           w == IF yieldAmount = 0 THEN World ELSE PullIfNeeded(World, yieldAmount)
       IN  /\ plans' = [plans EXCEPT ![planId].yieldEarned = @ + yieldAmount]
           /\ totalUserYield' = totalUserYield + yieldAmount
           /\ usdc' = Transfer(w.bal, CONTRACT, p.owner, yieldAmount)
           /\ totalYieldShares' = w.tys
           /\ ypTotalDeposited' = w.dep
           /\ ypTotalShares' = w.tsh
           /\ ypShares' = w.shr
    /\ UNCHANGED <<now, paused, minYieldDepositThreshold, emergencyWithdrawalDelay,
                   configVars, totalPlans, userPlans, totalPrincipal,
                   totalProtocolYield, lastYieldHarvest, allowance, sourceVars,
                   emergencyVars>>

\* ------------------------------------------------ executeDeductionsBatch
\* faulty variant: the loop does not skip a plan that is no longer active
BatchStepOnInactive(st, planId) ==
    IF planId = 0 \/ planId > totalPlans THEN st
    ELSE LET p == st.plans[planId]
             expected == ExpectedDeductionDate(p)
         IN  IF now > p.endDate
             THEN [st EXCEPT !.plans[planId] = CompletedPlan(p)]
             ELSE IF p.lastDeductionDate >= expected THEN st
             ELSE IF now < expected - HOUR THEN st
             ELSE IF Underfunded(p, st.bal, st.allow)
             THEN [st EXCEPT !.plans[planId] = MissedPlan(p)]
             ELSE [plans |-> [st.plans EXCEPT ![planId] = DeductedPlan(p)],
                   bal |-> Transfer(st.bal, p.owner, CONTRACT, p.dailyAmount),
                   allow |-> [st.allow EXCEPT ![p.owner] = SpendAllowance(@, p.dailyAmount)],
                   principal |-> st.principal + p.dailyAmount]

\* faulty variant: an entry that is not yet due is recorded as a miss
BatchStepMissingEarly(st, planId) ==
    IF planId = 0 \/ planId > totalPlans THEN st
    ELSE LET p == st.plans[planId]
             expected == ExpectedDeductionDate(p)
         IN  IF ~p.isActive \/ p.isCompleted THEN st
             ELSE IF now > p.endDate
             THEN [st EXCEPT !.plans[planId] = CompletedPlan(p)]
             ELSE IF p.lastDeductionDate >= expected THEN st
             ELSE IF now < expected - HOUR \/ Underfunded(p, st.bal, st.allow)
             THEN [st EXCEPT !.plans[planId] = MissedPlan(p)]
             ELSE [plans |-> [st.plans EXCEPT ![planId] = DeductedPlan(p)],
                   bal |-> Transfer(st.bal, p.owner, CONTRACT, p.dailyAmount),
                   allow |-> [st.allow EXCEPT ![p.owner] = SpendAllowance(@, p.dailyAmount)],
                   principal |-> st.principal + p.dailyAmount]

\* one iteration of the loop over planIds; st carries the plans, the token
\* balances and allowances and totalPrincipal through the loop
BatchStep(st, planId) ==
    IF planId = 0 \/ planId > totalPlans THEN st
    ELSE LET p == st.plans[planId]
             expected == ExpectedDeductionDate(p)
         IN  IF ~p.isActive \/ p.isCompleted THEN st
             ELSE IF now > p.endDate
             THEN [st EXCEPT !.plans[planId] = CompletedPlan(p)]
             ELSE IF p.lastDeductionDate >= expected THEN st
             ELSE IF now < expected - HOUR THEN st
             ELSE IF Underfunded(p, st.bal, st.allow)
             THEN [st EXCEPT !.plans[planId] = MissedPlan(p)]
             ELSE [plans |-> [st.plans EXCEPT ![planId] = DeductedPlan(p)],
                   bal |-> Transfer(st.bal, p.owner, CONTRACT, p.dailyAmount),
                   allow |-> [st.allow EXCEPT ![p.owner] = SpendAllowance(@, p.dailyAmount)],
                   principal |-> st.principal + p.dailyAmount]

RECURSIVE BatchLoop(_, _)
BatchLoop(st, planIds) ==
    IF planIds = <<>> THEN st
    ELSE BatchLoop(BatchStep(st, Head(planIds)), Tail(planIds))

\* the state the loop leaves
BatchResult(planIds) ==
    BatchLoop([plans |-> plans, bal |-> usdc, allow |-> allowance,
               principal |-> totalPrincipal], planIds)

ExecuteDeductionsBatchRevert(planIds) ==
    IF paused THEN "EnforcedPause"
    ELSE IF SweepCallsSource(BatchResult(planIds).bal[CONTRACT]) /\ ypReverts
    THEN "YieldSourceReverted"
    ELSE "none"

\* faulty variant: the batch deposits the whole on-hand balance, as a single
\* deduction does
WorldAfterBatchWholeBalance(planIds) ==
    LET st == BatchResult(planIds)
        w1 == [World EXCEPT !.bal = st.bal]
        before == usdc[CONTRACT]
        after == st.bal[CONTRACT]
    IN  IF SweepCallsSource(after) /\ ypHealthy /\ after > before
        THEN DepositToYield(w1, after)
        ELSE w1

\* the pool after the single deposit of the batch's new funds
WorldAfterBatch(planIds) ==
    LET st == BatchResult(planIds)
        w1 == [World EXCEPT !.bal = st.bal]
        before == usdc[CONTRACT]
        after == st.bal[CONTRACT]
    IN  IF SweepCallsSource(after) /\ ypHealthy /\ after > before
        THEN DepositToYield(w1, after - before)
        ELSE w1

ExecuteDeductionsBatch(planIds) ==
    /\ ExecuteDeductionsBatchRevert(planIds) = "none"
    /\ LET st == BatchResult(planIds)
           w == WorldAfterBatch(planIds)
       IN  /\ \A id \in 1..totalPlans : st.plans[id].missedDeductions <= MaxMissed
           /\ plans' = st.plans
           /\ allowance' = st.allow
           /\ totalPrincipal' = st.principal
           /\ usdc' = w.bal
           /\ totalYieldShares' = w.tys
           /\ ypTotalDeposited' = w.dep
           /\ ypTotalShares' = w.tsh
           /\ ypShares' = w.shr
    /\ UNCHANGED <<now, paused, minYieldDepositThreshold, emergencyWithdrawalDelay,
                   configVars, totalPlans, userPlans, totalUserYield,
                   totalProtocolYield, lastYieldHarvest, sourceVars, emergencyVars>>

\* ------------------------------------------------------- admin functions
\* setYieldProtocol(mock) / setYieldProtocol(address(0))
SetYieldProtocolRevert(caller, set) ==
    IF caller \notin DefaultAdmins THEN "AccessControlUnauthorizedAccount"
    ELSE IF set /\ ypReverts THEN "InvalidYieldProtocol"
    ELSE IF set /\ ~ypHealthy THEN "YieldProtocolUnhealthy"
    ELSE "none"

SetYieldProtocol(caller, set) ==
    /\ SetYieldProtocolRevert(caller, set) = "none"
    /\ yieldProtocolSet # set
    /\ yieldProtocolSet' = set
    /\ UNCHANGED <<now, paused, minYieldDepositThreshold, emergencyWithdrawalDelay,
                   configVars, planVars, poolVars, tokenVars, yieldVars,
                   ypHealthy, ypReverts, ypFailing, emergencyVars>>

\* setMinYieldDepositThreshold: any value is accepted
SetMinYieldDepositThreshold(caller, threshold) ==
    /\ caller \in DefaultAdmins
    /\ minYieldDepositThreshold # threshold
    /\ minYieldDepositThreshold' = threshold
    /\ UNCHANGED <<now, paused, emergencyWithdrawalDelay, configVars, planVars,
                   poolVars, tokenVars, yieldVars, sourceVars, emergencyVars>>

\* ------------------------------------------------------ _verifyAccounting
\* totalFunds: the on-hand balance plus the yield source's balance (0 when
\* there is no source or its getBalance() reverts)
TotalFunds ==
    usdc[CONTRACT]
      + (IF yieldProtocolSet /\ ~ypReverts THEN MockGetBalance(ypTotalDeposited) ELSE 0)

\* expectedTotal
ExpectedTotal == totalPrincipal + totalUserYield + totalProtocolYield

\* ---------------------------------------------------------------------
\* The emergency withdrawal state machine: one funded plan owner and the
\* two holders of EMERGENCY_ROLE, one of which owns a plan itself.
EmergencyHorizon == 120
EmergencyFunds == 10
EmergencyPlans == 1
EmergencyDailyAmount == 10
EmergencyPartAmount == 5
EmergencyDelays == {0, CTOR_EMERGENCY_DELAY}
EmergencyTicks == {DAY, CTOR_EMERGENCY_DELAY}

\* the fixture's accounts have approved type(uint256).max
InitEmergency == InitWith(EmergencyFunds, UnlimitedAllowance)

NextEmergency ==
    \/ \E c \in PlanCreators :
          totalPlans < EmergencyPlans /\ CreatePlan(c, EmergencyDailyAmount, 0)
    \/ \E id \in 1..MaxPlans : ExecuteDeduction(id)
    \/ Pause(DEPLOYER)
    \/ Unpause(DEPLOYER)
    \/ \E d \in EmergencyDelays : SetEmergencyWithdrawalDelay(DEPLOYER, d)
    \/ \E u \in PlanCreators, id \in 1..MaxPlans, a \in {0, EmergencyPartAmount} :
          ScheduleEmergencyWithdrawal(DEPLOYER, u, id, a, "reason")
    \/ \E c \in EmergencyAdmins, id \in WithdrawalIds : ExecuteEmergencyWithdrawal(c, id)
    \/ \E c \in EmergencyAdmins, id \in WithdrawalIds : CancelEmergencyWithdrawal(c, id)
    \/ \E d \in EmergencyTicks : Tick(d, EmergencyHorizon)

SpecEmergency == InitEmergency /\ [][NextEmergency]_vars

\* ---------------------------------------------------------------------
\* The deduction schedule of one 30-day plan, followed hour by hour around
\* each expected deduction instant: the block timestamps visited are those
\* 1 hour before, at, and 2 hours after every multiple of a day.
ScheduleDailyAmount == 10
ScheduleDays == 31
ScheduleHorizon == DAY + (ScheduleDays * DAY)
ScheduleFunds == ScheduleDailyAmount * ScheduleDays
ScheduleBatches == {<<1>>, <<1, 1>>}

InitSchedule == InitWith(ScheduleFunds, 0)

\* the next block timestamp visited
ScheduleTick ==
    CASE now % DAY = 0 -> Tick(2 * HOUR, ScheduleHorizon)
      [] now % DAY = 2 * HOUR -> Tick(DAY - (3 * HOUR), ScheduleHorizon)
      [] OTHER -> Tick(HOUR, ScheduleHorizon)

NextSchedule ==
    \/ totalPlans = 0 /\ now = DAY /\ CreatePlan("user1", ScheduleDailyAmount, 0)
    \/ \E a \in {0, UnlimitedAllowance} : Approve("user1", a)
    \/ \E id \in 1..MaxPlans : ExecuteDeduction(id)
    \/ \E planIds \in ScheduleBatches : ExecuteDeductionsBatch(planIds)
    \/ \E id \in 1..totalPlans : Withdraw(plans[id].owner, id, 0)
    \/ ScheduleTick

SpecSchedule == InitSchedule /\ [][NextSchedule]_vars

\* ---------------------------------------------------------------------
\* The savings life cycle: plans are created and funded by deductions, the
\* pool is swept into the yield source, owners withdraw and claim yield,
\* and the emergency admin withdraws for them while the contract is paused.
Horizon == (2 * DAY) + PLAN_DURATION_1_MONTH
DailyAmount == 50
PartAmount == 20
SweepThreshold == 100
Surplus == 5
MaxSupply == (2 * InitialFunds) + Surplus

\* the block timestamp moves on by a day or by the length of a plan
LifeTick ==
    \/ now \in {DAY, DAY + PLAN_DURATION_1_MONTH} /\ Tick(DAY, Horizon)
    \/ Tick(PLAN_DURATION_1_MONTH, Horizon)

Next ==
    \/ CreatePlan("user1", DailyAmount, 0)
    \/ \E id \in 1..MaxPlans : ExecuteDeduction(id)
    \/ \E id \in 1..totalPlans, a \in {0, PartAmount} :
          Withdraw(plans[id].owner, id, a)
    \/ \E id \in 1..totalPlans : ClaimYield(plans[id].owner, id)
    \/ SetYieldProtocol(DEPLOYER, TRUE)
    \/ SetMinYieldDepositThreshold(DEPLOYER, SweepThreshold)
    \/ TotalSupply + Surplus <= MaxSupply /\ Mint(CONTRACT, Surplus)
    \/ Pause(DEPLOYER)
    \/ Unpause(DEPLOYER)
    \/ \E id \in 1..totalPlans :
          ScheduleEmergencyWithdrawal(DEPLOYER, plans[id].owner, id, PartAmount, "reason")
    \/ \E id \in WithdrawalIds : ExecuteEmergencyWithdrawal(DEPLOYER, id)
    \/ LifeTick

Spec == Init /\ [][Next]_vars

\* =====================================================================
\* Claims
\* =====================================================================

\* a step in which executeEmergencyWithdrawal(id) succeeded
EmergencyExecuted(id) == executedCount'[id] > executedCount[id]

C2_NotReadyBeforeExecutionTime ==
    /\ [](\A id \in WithdrawalIds :
            LET req == emergencyWithdrawals[id]
            IN  now < req.executionTime =>
                  /\ \A c \in Accounts : ExecuteEmergencyWithdrawalRevert(c, id) # "none"
                  /\ (paused /\ ~req.executed /\ ~req.cancelled) =>
                        \A c \in EmergencyAdmins :
                           ExecuteEmergencyWithdrawalRevert(c, id)
                              = "EmergencyWithdrawalNotReady")
    /\ [][\A id \in DOMAIN emergencyWithdrawals' :
            LET new == emergencyWithdrawals'[id]
            IN  /\ (id \notin WithdrawalIds \/ new.scheduledTime # emergencyWithdrawals[id].scheduledTime
                      \/ new.executionTime # emergencyWithdrawals[id].executionTime)
                     => /\ new.scheduledTime = now
                        /\ new.executionTime = now + emergencyWithdrawalDelay
                        /\ emergencyWithdrawalDelay' = emergencyWithdrawalDelay
               /\ id \in WithdrawalIds =>
                     /\ EmergencyExecuted(id) => now >= emergencyWithdrawals[id].executionTime
                     /\ emergencyWithdrawalDelay' # emergencyWithdrawalDelay
                          => new = emergencyWithdrawals[id]]_vars

\* C2 witness: a pending request whose executionTime has not come, after
\* the delay has been changed from the one it was scheduled with
C2_Witness ==
    \E id \in WithdrawalIds :
        LET req == emergencyWithdrawals[id]
        IN  /\ paused
            /\ ~req.executed
            /\ ~req.cancelled
            /\ now > req.scheduledTime
            /\ now < req.executionTime
            /\ req.executionTime # req.scheduledTime + emergencyWithdrawalDelay

\* C3: at most one executeEmergencyWithdrawal succeeds for a withdrawal id
C3_AtMostOneExecution ==
    \A id \in WithdrawalIds : executedCount[id] <= 1

\* C4: once cancelEmergencyWithdrawal(id) has succeeded, no later
\* executeEmergencyWithdrawal(id) succeeds
C4_CancelledNeverExecuted ==
    [][\A id \in cancelledIds : ~EmergencyExecuted(id)]_vars

\* C5 (as claimed): after every operation the on-hand balance plus the
\* yield source's balance differs from totalPrincipal + totalUserYield +
\* totalProtocolYield by at most the tolerance.
C5_AccountingWithinTolerance ==
    /\ TotalFunds - ExpectedTotal <= ACCOUNTING_TOLERANCE
    /\ ExpectedTotal - TotalFunds <= ACCOUNTING_TOLERANCE

\* the 24-hour slot [startDate + k days, startDate + (k+1) days) holding t
SlotOf(p, t) == (t - p.startDate) \div DAY

\* a plan on which a deduction has succeeded and that has not matured
DeductedBefore(p) == p.lastDeductionDate > 0 /\ now < p.endDate

\* C6 (as claimed): a plan marked completed while it still holds balance
\* can be withdrawn by its owner at or after endDate: withdraw(id, 0) is
\* not rejected.
C6_CompletedPlanWithdrawable ==
    \A id \in 1..totalPlans :
        LET p == plans[id]
        IN  (p.isCompleted /\ p.accumulatedBalance + p.yieldEarned > 0
                 /\ now >= p.endDate)
            => WithdrawRevert(p.owner, id, 0) = "none"

\* C7 (as amended): once a deduction has succeeded at time t, every further
\* executeDeduction made before endDate at a time t' <= t + 1 hour, or more
\* than 1 hour before the next expected instant, is rejected.
C7_RejectedWithinTolerance ==
    \A id \in 1..totalPlans :
        LET p == plans[id]
        IN  (DeductedBefore(p)
                 /\ (\/ now <= p.lastDeductionDate + HOUR
                     \/ now < ExpectedDeductionDate(p) - HOUR))
            => ExecuteDeductionRevert(id) # "none"

\* a premature second call in the slot of the last deduction is rejected
C7_Witness ==
    \E id \in 1..totalPlans :
        LET p == plans[id]
        IN  /\ DeductedBefore(p)
            /\ SlotOf(p, now) = SlotOf(p, p.lastDeductionDate)
            /\ now > p.lastDeductionDate + HOUR
            /\ ExecuteDeductionRevert(id) = "InvalidParameter"

\* C7 (as claimed): once a deduction has succeeded at time t, every further
\* executeDeduction within the 24-hour slot that holds t is rejected.
C7_RejectedWithinSlot ==
    \A id \in 1..totalPlans :
        LET p == plans[id]
        IN  (DeductedBefore(p) /\ SlotOf(p, now) = SlotOf(p, p.lastDeductionDate))
            => ExecuteDeductionRevert(id) # "none"

\* C8 (as claimed): principalDeposited never exceeds totalTarget.
C8_PrincipalWithinTarget ==
    \A id \in 1..totalPlans :
        plans[id].principalDeposited <= plans[id].totalTarget

\* C9: in every reachable state every plan's accumulatedBalance is at most
\* its principalDeposited.
C9_BalanceWithinPrincipal ==
    \A id \in 1..totalPlans :
        plans[id].accumulatedBalance <= plans[id].principalDeposited

\* a plan that was deducted from, credited yield and partly paid out, by
\* withdraw or by an emergency execution
C9_Witness ==
    \E id \in 1..totalPlans :
        /\ plans[id].accumulatedBalance > 0
        /\ plans[id].accumulatedBalance < plans[id].principalDeposited
        /\ plans[id].yieldEarned > 0

\* executeDeduction is due on an active plan
DeductionDue(id) ==
    LET p == plans[id]
    IN  /\ ~paused
        /\ p.isActive /\ ~p.isCompleted
        /\ now < p.endDate
        /\ ~(p.lastDeductionDate > 0 /\ now <= p.lastDeductionDate + HOUR)
        /\ ~(p.lastDeductionDate > 0
                /\ p.lastDeductionDate >= ExpectedDeductionDate(p) - HOUR)
        /\ now >= ExpectedDeductionDate(p) - HOUR

\* C10: when executeDeduction is due and the owner's balance or allowance is
\* below dailyAmount, the call is not rejected, and the step it takes adds
\* exactly 1 to missedDeductions and changes nothing else: no other field
\* of the plan, no total, no token balance or allowance.
C10_MissedDeductionFrame ==
    /\ [](\A id \in 1..totalPlans :
            (DeductionDue(id) /\ Underfunded(plans[id], usdc, allowance))
            => ExecuteDeductionRevert(id) = "none")
    /\ [][\A id \in 1..totalPlans :
            (DeductionDue(id) /\ Underfunded(plans[id], usdc, allowance)
                 /\ ExecuteDeduction(id))
            => /\ plans' = [plans EXCEPT ![id].missedDeductions = @ + 1]
               /\ UNCHANGED <<poolVars, tokenVars, yieldVars>>]_vars

\* a deduction was missed on a plan that had been deducted from before
C10_Witness ==
    \E id \in 1..totalPlans :
        /\ plans[id].missedDeductions > 0
        /\ plans[id].successfulDeductions > 0
        /\ DeductionDue(id)
        /\ Underfunded(plans[id], usdc, allowance)

\* C11 (as claimed): a step of executeDeduction that records a miss moves the
\* plan's next expected deduction instant exactly one day on, and a further
\* executeDeduction at the same time is rejected: it neither deducts nor
\* records a second miss.
C11_MissAdvancesSchedule ==
    [][\A id \in 1..totalPlans :
            (DeductionDue(id) /\ Underfunded(plans[id], usdc, allowance)
                 /\ ExecuteDeduction(id))
            => /\ ExpectedDeductionDate(plans'[id])
                      = ExpectedDeductionDate(plans[id]) + DAY
               /\ (ExecuteDeductionRevert(id) # "none")']_vars

\* C12: on a plan that is still active at or after endDate, executeDeduction
\* is accepted (when the contract is not paused) and the step sets isActive
\* to false and isCompleted to true and changes nothing else: no balance, no
\* counter, no total, no token balance or allowance.  On a plan that is no
\* longer active every executeDeduction is rejected, with PlanNotActive when
\* the contract is not paused.
C12_MaturityCompletesOnce ==
    /\ [](\A id \in 1..totalPlans :
            LET p == plans[id]
            IN  /\ (p.isActive /\ ~p.isCompleted /\ now >= p.endDate /\ ~paused)
                   => ExecuteDeductionRevert(id) = "none"
                /\ (~p.isActive \/ p.isCompleted)
                   => /\ ExecuteDeductionRevert(id) # "none"
                      /\ ~paused => ExecuteDeductionRevert(id) = "PlanNotActive")
    /\ [][\A id \in 1..totalPlans :
            (plans[id].isActive /\ ~plans[id].isCompleted
                 /\ now >= plans[id].endDate /\ ExecuteDeduction(id))
            => /\ plans' = [plans EXCEPT ![id].isActive = FALSE,
                                         ![id].isCompleted = TRUE]
               /\ UNCHANGED <<poolVars, tokenVars, yieldVars>>]_vars

\* a plan holding balance was completed by executeDeduction at endDate (the
\* batch completes only after endDate), and a further call is rejected
C12_Witness ==
    \E id \in 1..totalPlans :
        LET p == plans[id]
        IN  /\ now = p.endDate
            /\ ~p.isActive /\ p.isCompleted
            /\ p.accumulatedBalance > 0
            /\ ExecuteDeductionRevert(id) = "PlanNotActive"

\* ------------------------------------------------------------------------
\* Withdrawals from one plan: user1 saves WithdrawDailyAmount a day for up
\* to three days and withdraws everything or one of WithdrawAmounts, before
\* endDate or after it.
WithdrawDailyAmount == 75
WithdrawDays == 3
WithdrawFunds == WithdrawDailyAmount * WithdrawDays
WithdrawAmounts == {0, 5, 15, 150}

InitWithdraw == InitWith(WithdrawFunds, UnlimitedAllowance)

\* the block timestamp moves on by a day during the first days of the plan,
\* or by the length of the plan
WithdrawTick ==
    \/ Tick(DAY, WithdrawDays * DAY)
    \/ Tick(PLAN_DURATION_1_MONTH, Horizon)

NextWithdraw ==
    \/ totalPlans = 0 /\ CreatePlan("user1", WithdrawDailyAmount, 0)
    \/ \E id \in 1..MaxPlans : ExecuteDeduction(id)
    \/ \E id \in 1..totalPlans, a \in WithdrawAmounts :
          Withdraw(plans[id].owner, id, a)
    \/ WithdrawTick

SpecWithdraw == InitWithdraw /\ [][NextWithdraw]_vars

\* C13 (as amended): a step of withdraw for the requested amount R (the
\* plan's accumulatedBalance + yieldEarned when amount is 0) raises the
\* owner's token balance by exactly R - floor(R * earlyWithdrawalPenalty /
\* 10000) when it is made before endDate, and by exactly R when it is made
\* at or after endDate; with earlyWithdrawalPenalty = 1000 and R = 150 an
\* early withdrawal pays 135.
C13_PayoutIsRequestedLessPenalty ==
    [][\A id \in 1..totalPlans, a \in WithdrawAmounts :
            Withdraw(plans[id].owner, id, a)
            => LET p == plans[id]
                   R == RequestedAmount(p, a)
                   paid == usdc'[p.owner] - usdc[p.owner]
               IN  /\ now < p.endDate
                      => paid = R - ((R * earlyWithdrawalPenalty) \div BPS)
                   /\ now >= p.endDate => paid = R
                   /\ (now < p.endDate /\ earlyWithdrawalPenalty = 1000 /\ R = 150)
                      => paid = 135]_vars

\* before endDate 15 was withdrawn from the plan and its owner received 14:
\* the penalty of 1.5 was rounded down to 1
C13_Witness ==
    \E id \in 1..totalPlans :
        LET p == plans[id]
        IN  /\ now < p.endDate
            /\ p.principalDeposited - p.accumulatedBalance = 15
            /\ usdc[p.owner] = WithdrawFunds - p.principalDeposited + 14

\* C13 (as claimed): a step of withdraw for the requested amount R made
\* before endDate raises the owner's token balance by exactly
\* floor(R * (10000 - earlyWithdrawalPenalty) / 10000), and one made at or
\* after endDate by exactly R.
C13_PayoutIsRoundedDownShare ==
    [][\A id \in 1..totalPlans, a \in WithdrawAmounts :
            Withdraw(plans[id].owner, id, a)
            => LET p == plans[id]
                   R == RequestedAmount(p, a)
                   paid == usdc'[p.owner] - usdc[p.owner]
               IN  /\ now < p.endDate
                      => paid = (R * (BPS - earlyWithdrawalPenalty)) \div BPS
                   /\ now >= p.endDate => paid = R]_vars

\* C14: a step of withdraw for the requested amount A on a plan holding
\* p = accumulatedBalance and y = yieldEarned with p + y > 0 takes
\* floor(A * p / (p + y)) from accumulatedBalance and floor(A * y / (p + y))
\* from yieldEarned, both rounded down; a withdrawal of less than p + y
\* leaves something in each component that held something.
C14_DebitsProRata ==
    [][\A id \in 1..totalPlans, a \in {0, PartAmount} :
            (Withdraw(plans[id].owner, id, a)
                 /\ plans[id].accumulatedBalance + plans[id].yieldEarned > 0)
            => LET p == plans[id].accumulatedBalance
                   y == plans[id].yieldEarned
                   A == RequestedAmount(plans[id], a)
               IN  /\ plans'[id].accumulatedBalance = p - ((A * p) \div (p + y))
                   /\ plans'[id].yieldEarned = y - ((A * y) \div (p + y))
                   /\ (A < p + y /\ p > 0) => plans'[id].accumulatedBalance > 0
                   /\ (A < p + y /\ y > 0) => plans'[id].yieldEarned > 0]_vars

\* a plan has been credited yield and still holds principal and yield, and
\* the plans together hold less yield than was credited: some of it was paid
\* out in a partial withdrawal (no emergency withdrawal has been executed)
C14_Witness ==
    /\ \E id \in 1..totalPlans :
          plans[id].accumulatedBalance > 0 /\ plans[id].yieldEarned > 0
    /\ SumOver([i \in 1..totalPlans |-> plans[i].yieldEarned], 1..totalPlans)
          < totalUserYield
    /\ \A i \in WithdrawalIds : executedCount[i] = 0

\* C15 (as claimed): a step of withdraw for the requested amount R lowers
\* the plan's accumulatedBalance + yieldEarned by exactly R, and lowers
\* accumulatedBalance alone by exactly R when yieldEarned is 0.
C15_DebitsRequestedAmount ==
    [][\A id \in 1..totalPlans, a \in {0, PartAmount} :
            Withdraw(plans[id].owner, id, a)
            => LET p == plans[id]
                   R == RequestedAmount(p, a)
               IN  /\ plans'[id].accumulatedBalance + plans'[id].yieldEarned
                          = (p.accumulatedBalance + p.yieldEarned) - R
                   /\ p.yieldEarned = 0
                      => plans'[id].accumulatedBalance = p.accumulatedBalance - R]_vars

\* C16 (as claimed): while the contract is paused, createPlan,
\* executeDeduction, executeDeductionsBatch, withdraw and claimYield are each
\* rejected.
C16_PausedRejectsUserCalls ==
    paused =>
        /\ CreatePlanRevert(DailyAmount, 0) # "none"
        /\ \A id \in 1..totalPlans :
              /\ ExecuteDeductionRevert(id) # "none"
              /\ ExecuteDeductionsBatchRevert(<<id>>) # "none"
              /\ \A a \in {0, PartAmount} :
                    WithdrawRevert(plans[id].owner, id, a) # "none"
              /\ ClaimYieldRevert(plans[id].owner, id) # "none"

\* C17: while the contract is not paused, scheduleEmergencyWithdrawal and
\* executeEmergencyWithdrawal are rejected for every caller, plan and
\* request, a request scheduled earlier and past its executionTime included;
\* every step of either function is taken in a paused contract and leaves it
\* paused.
C17_EmergencyOnlyWhilePaused ==
    /\ [](~paused =>
            /\ \A c \in Accounts, u \in PlanCreators, id \in 1..MaxPlans :
                  ScheduleEmergencyWithdrawalRevert(c, u, id) # "none"
            /\ \A c \in Accounts, wid \in WithdrawalIds :
                  ExecuteEmergencyWithdrawalRevert(c, wid) # "none")
    /\ [][(\/ \E u \in PlanCreators, id \in 1..MaxPlans, a \in {0, EmergencyPartAmount} :
                ScheduleEmergencyWithdrawal(DEPLOYER, u, id, a, "reason")
           \/ \E c \in EmergencyAdmins, wid \in WithdrawalIds :
                ExecuteEmergencyWithdrawal(c, wid))
          => paused /\ paused']_vars

\* the contract was unpaused with a request pending, the request is past
\* its executionTime, and its execution is rejected for want of a pause
C17_Witness ==
    /\ ~paused
    /\ \E wid \in WithdrawalIds :
          LET req == emergencyWithdrawals[wid]
          IN  /\ ~req.executed /\ ~req.cancelled
              /\ now >= req.executionTime
              /\ ExecuteEmergencyWithdrawalRevert(req.admin, wid) = "ExpectedPause"

\* ------------------------------------------------------------------------
\* A yield source that fails: the contract behind yieldProtocol is outside
\* SavingsPlan, and from some block on every call into it may revert.
SourceFails ==
    /\ ~ypReverts
    /\ ypReverts' = TRUE
    /\ UNCHANGED <<now, paused, minYieldDepositThreshold, emergencyWithdrawalDelay,
                   configVars, planVars, poolVars, tokenVars, yieldVars,
                   yieldProtocolSet, ypHealthy, ypFailing, emergencyVars>>

SourceRecovers ==
    /\ ypReverts
    /\ ypReverts' = FALSE
    /\ UNCHANGED <<now, paused, minYieldDepositThreshold, emergencyWithdrawalDelay,
                   configVars, planVars, poolVars, tokenVars, yieldVars,
                   yieldProtocolSet, ypHealthy, ypFailing, emergencyVars>>

SourceDays == 3
SourceHorizon == DAY + (SourceDays * DAY)

NextSource ==
    \/ totalPlans = 0 /\ CreatePlan("user1", DailyAmount, 0)
    \/ SetYieldProtocol(DEPLOYER, TRUE)
    \/ SetMinYieldDepositThreshold(DEPLOYER, SweepThreshold)
    \/ \E id \in 1..MaxPlans : ExecuteDeduction(id)
    \/ \E id \in 1..totalPlans : ExecuteDeductionsBatch(<<id>>)
    \/ \E id \in 1..totalPlans, a \in {0, PartAmount} :
          Withdraw(plans[id].owner, id, a)
    \/ \E id \in 1..totalPlans : ClaimYield(plans[id].owner, id)
    \/ SourceFails
    \/ SourceRecovers
    \/ Tick(DAY, SourceHorizon)

SpecSource == Init /\ [][NextSource]_vars

\* C18 (as claimed): with a yield source set, no failure of a call into the
\* source makes executeDeduction, executeDeductionsBatch, withdraw or
\* claimYield fail.
C18_SourceFailureNeverSurfaces ==
    yieldProtocolSet =>
        \A id \in 1..totalPlans :
            /\ ExecuteDeductionRevert(id) # "YieldSourceReverted"
            /\ ExecuteDeductionsBatchRevert(<<id>>) # "YieldSourceReverted"
            /\ \A a \in {0, PartAmount} :
                  WithdrawRevert(plans[id].owner, id, a) # "YieldSourceReverted"
            /\ ClaimYieldRevert(plans[id].owner, id) # "YieldSourceReverted"

\* ------------------------------------------------------------------------
\* Batches over two plans: user1 and the deployer each open a plan, approve
\* or withdraw their approval, and a keeper calls executeDeduction or
\* executeDeductionsBatch with lists of up to BatchLen entries, valid or not.
BatchDailyAmount == 10
BatchDays == 2
BatchLen == 2
BatchHorizon == DAY + (BatchDays * DAY)
BatchLists == UNION {[1..n -> 0..(MaxPlans + 1)] : n \in 1..BatchLen}

InitBatch == InitWith(InitialFunds, 0)

NextBatch ==
    \/ \E c \in PlanCreators :
          userPlans[c] = <<>> /\ CreatePlan(c, BatchDailyAmount, 0)
    \/ \E c \in PlanCreators, a \in {0, UnlimitedAllowance} : Approve(c, a)
    \/ \E id \in 1..MaxPlans : ExecuteDeduction(id)
    \/ \E planIds \in BatchLists : ExecuteDeductionsBatch(planIds)
    \/ \E id \in 1..totalPlans : Withdraw(plans[id].owner, id, 0)
    \/ Tick(DAY, BatchHorizon)

SpecBatch == InitBatch /\ [][NextBatch]_vars

\* the list planIds without its i-th entry
WithoutEntry(planIds, i) ==
    SubSeq(planIds, 1, i - 1) \o SubSeq(planIds, i + 1, Len(planIds))

\* what the loop of executeDeductionsBatch(planIds) has done when it comes
\* to the i-th entry
BeforeEntry(planIds, i) ==
    BatchLoop([plans |-> plans, bal |-> usdc, allow |-> allowance,
               principal |-> totalPrincipal], SubSeq(planIds, 1, i - 1))

\* the kinds of entry of C19, for an entry met in the loop state st
InvalidEntry(st, planId) == planId = 0 \/ planId > totalPlans

InactiveEntry(st, planId) ==
    /\ ~InvalidEntry(st, planId)
    /\ ~st.plans[planId].isActive \/ st.plans[planId].isCompleted

EarlyEntry(st, planId) ==
    /\ ~InvalidEntry(st, planId) /\ ~InactiveEntry(st, planId)
    /\ now <= st.plans[planId].endDate
    /\ now < ExpectedDeductionDate(st.plans[planId]) - HOUR

UnderfundedEntry(st, planId) ==
    /\ ~InvalidEntry(st, planId) /\ ~InactiveEntry(st, planId)
    /\ now <= st.plans[planId].endDate
    /\ st.plans[planId].lastDeductionDate < ExpectedDeductionDate(st.plans[planId])
    /\ now >= ExpectedDeductionDate(st.plans[planId]) - HOUR
    /\ Underfunded(st.plans[planId], st.bal, st.allow)

\* two loop states that differ at most in the missedDeductions of planId
SameButMisses(a, b, planId) ==
    /\ a.bal = b.bal /\ a.allow = b.allow /\ a.principal = b.principal
    /\ \A id \in 1..totalPlans :
          IF id = planId
          THEN [a.plans[id] EXCEPT !.missedDeductions = 0]
                  = [b.plans[id] EXCEPT !.missedDeductions = 0]
          ELSE a.plans[id] = b.plans[id]

\* C19: in executeDeductionsBatch an entry with an invalid id, of an inactive
\* or completed plan or of a plan that is not yet due changes nothing, and an
\* entry of a due plan whose owner cannot pay adds 1 to that plan's
\* missedDeductions and changes nothing else; with any such entry in the
\* list the call is rejected exactly when it is rejected without the entry,
\* and the loop leaves every plan, balance, allowance and totalPrincipal as
\* it leaves them without the entry, that plan's missedDeductions apart.
C19_BadEntriesAreSkipped ==
    \A planIds \in BatchLists : \A i \in 1..Len(planIds) :
        LET st == BeforeEntry(planIds, i)
            e == planIds[i]
            rest == WithoutEntry(planIds, i)
        IN  /\ (InvalidEntry(st, e) \/ InactiveEntry(st, e) \/ EarlyEntry(st, e))
               => BatchStep(st, e) = st
            /\ UnderfundedEntry(st, e)
               => BatchStep(st, e) =
                     [st EXCEPT !.plans[e].missedDeductions = @ + 1]
            /\ (InvalidEntry(st, e) \/ InactiveEntry(st, e) \/ EarlyEntry(st, e)
                    \/ UnderfundedEntry(st, e))
               => /\ ExecuteDeductionsBatchRevert(planIds)
                        = ExecuteDeductionsBatchRevert(rest)
                  /\ SameButMisses(BatchResult(planIds), BatchResult(rest), e)

\* a batch that is not rejected, whose first entry is of a plan whose owner
\* cannot pay and whose second entry is deducted
C19_Witness ==
    \E planIds \in BatchLists :
        /\ Len(planIds) = 2
        /\ UnderfundedEntry(BeforeEntry(planIds, 1), planIds[1])
        /\ ExecuteDeductionsBatchRevert(planIds) = "none"
        /\ BatchResult(planIds).principal = totalPrincipal + BatchDailyAmount
        /\ BatchResult(planIds).plans[planIds[1]].missedDeductions
              = plans[planIds[1]].missedDeductions + 1

\* the plan record and totalPrincipal a call executeDeduction(id) leaves
\* (the present ones when the call is rejected)
AfterSingle(id) ==
    LET p == plans[id]
        outcome == DeductionOutcome(id)
    IN  IF ExecuteDeductionRevert(id) # "none"
        THEN [plan |-> p, principal |-> totalPrincipal]
        ELSE IF outcome = "completed"
        THEN [plan |-> CompletedPlan(p), principal |-> totalPrincipal]
        ELSE IF outcome = "missed"
        THEN [plan |-> MissedPlan(p), principal |-> totalPrincipal]
        ELSE [plan |-> DeductedPlan(p), principal |-> totalPrincipal + p.dailyAmount]

\* the plan record and totalPrincipal a call executeDeductionsBatch([id])
\* leaves (the present ones when the call is rejected)
AfterBatchOfOne(id) ==
    IF ExecuteDeductionsBatchRevert(<<id>>) # "none"
    THEN [plan |-> plans[id], principal |-> totalPrincipal]
    ELSE [plan |-> BatchResult(<<id>>).plans[id],
          principal |-> BatchResult(<<id>>).principal]

\* C20 (as claimed): for every plan id, in every state,
\* executeDeductionsBatch([id]) leaves the plan record and totalPrincipal
\* exactly as executeDeduction(id) leaves them when it succeeds, and leaves
\* them unchanged when executeDeduction(id) is rejected.
C20_BatchOfOneMatchesSingle ==
    \A id \in 1..totalPlans : AfterBatchOfOne(id) = AfterSingle(id)

\* ------------------------------------------------------------------------
\* Plan creation: any account asks for plans of any amount and duration,
\* in range or not, in a contract that is paused or not.
CreateAmounts == {0, CTOR_MIN_DAILY_DEDUCTION, 50, CTOR_MAX_DAILY_DEDUCTION,
                  CTOR_MAX_DAILY_DEDUCTION + 1}
CreateDurations == 0..4
CreateDays == 2
CreateHorizon == DAY + (CreateDays * DAY)

NextCreate ==
    \/ \E c \in Accounts, d \in CreateAmounts, dur \in CreateDurations :
          CreatePlan(c, d, dur)
    \/ Pause(DEPLOYER)
    \/ Unpause(DEPLOYER)
    \/ Tick(DAY, CreateHorizon)

SpecCreate == Init /\ [][NextCreate]_vars

\* the number of days of each of the four durations
DurationDays(duration) == <<30, 90, 180, 365>>[duration + 1]

\* C21: createPlan is accepted exactly when the contract is not paused,
\* dailyAmount lies within [minDailyDeduction, maxDailyDeduction] and the
\* duration is one of the four, and an amount out of range is answered with
\* InvalidDailyAmount when the contract is not paused.  A step of createPlan
\* raises totalPlans by 1, stores under the new totalPlans a plan of the
\* caller with totalTarget = dailyAmount * (30, 90, 180 or 365), endDate =
\* startDate + duration, isActive set and every balance and counter 0,
\* appends the id to the caller's index and changes no other plan and
\* nothing else.  The ids in use are 1..totalPlans, each in the index of its
\* owner only.
C21_CreatePlan ==
    /\ [](/\ \A d \in CreateAmounts, dur \in CreateDurations :
               /\ CreatePlanRevert(d, dur) = "none"
                     <=> /\ ~paused
                         /\ d >= minDailyDeduction /\ d <= maxDailyDeduction
                         /\ dur \in {0, 1, 2, 3}
               /\ (~paused /\ (d < minDailyDeduction \/ d > maxDailyDeduction))
                     => CreatePlanRevert(d, dur) = "InvalidDailyAmount"
          /\ DOMAIN plans = 1..totalPlans
          /\ \A c \in Accounts : \A i \in 1..Len(userPlans[c]) :
               /\ userPlans[c][i] \in 1..totalPlans
               /\ plans[userPlans[c][i]].owner = c
          /\ \A id \in 1..totalPlans :
               \E i \in 1..Len(userPlans[plans[id].owner]) :
                   userPlans[plans[id].owner][i] = id)
    /\ [][\A c \in Accounts, d \in CreateAmounts, dur \in CreateDurations :
            CreatePlan(c, d, dur)
            => /\ totalPlans' = totalPlans + 1
               /\ plans'[totalPlans'] =
                    [owner |-> c, dailyAmount |-> d, startDate |-> now,
                     endDate |-> now + (DurationDays(dur) * DAY),
                     totalTarget |-> d * DurationDays(dur),
                     accumulatedBalance |-> 0, principalDeposited |-> 0,
                     yieldEarned |-> 0, lastDeductionDate |-> 0,
                     successfulDeductions |-> 0, missedDeductions |-> 0,
                     isActive |-> TRUE, isCompleted |-> FALSE, duration |-> dur]
               /\ \A id \in 1..totalPlans : plans'[id] = plans[id]
               /\ userPlans' = [userPlans EXCEPT ![c] = Append(@, totalPlans + 1)]
               /\ UNCHANGED <<now, paused, poolVars, tokenVars, yieldVars,
                              emergencyVars>>]_vars

\* the second plan is a one-year plan of the largest amount, created by an
\* account other than the first plan's owner, in a paused contract where a
\* further createPlan is rejected
C21_Witness ==
    /\ totalPlans = 2
    /\ plans[1].owner # plans[2].owner
    /\ plans[2].totalTarget = CTOR_MAX_DAILY_DEDUCTION * 365
    /\ userPlans[plans[2].owner] = <<2>>
    /\ CreatePlanRevert(50, 0) = "EnforcedPause"

\* ------------------------------------------------------------ view functions
\* getAccumulatedYield(planId): (userShare * timeFactor) / PRECISION with
\* timeFactor = (timeElapsed * PRECISION) / planDuration, then the user's
\* share in basis points.  userShare is far below PRECISION, so the rounding
\* of the time factor lowers userShare * timeElapsed / planDuration by less
\* than one part in its denominator: the result is that quotient rounded
\* down, less 1 when the quotient is whole and the time factor was rounded.
ViewGrossYield(p) ==
    LET n == UserShare(p) * TimeElapsed(p)
        m == PlanDuration(p)
    IN  IF n > 0 /\ n % m = 0 /\ TimeFactorRemainder(p) # 0
        THEN (n \div m) - 1
        ELSE n \div m

GetAccumulatedYield(planId) ==
    LET p == plans[planId]
    IN  IF p.principalDeposited = 0 THEN 0
        ELSE IF totalPrincipal = 0 \/ totalYieldShares = 0 THEN 0
        ELSE (ViewGrossYield(p) * userYieldShareBps) \div BPS

\* C22 (as claimed): in every state, for every plan, the amount
\* getAccumulatedYield(id) reports is the amount a claimYield(id) by the
\* owner credits and pays out when it is executed in that state.
C22_ViewMatchesClaim ==
    \A id \in 1..totalPlans :
        ClaimYieldRevert(plans[id].owner, id) = "none"
        => GetAccumulatedYield(id) = CalculatedYield(plans[id])

\* nothing has been deducted for the plan or nothing has been placed with
\* the yield source
NoYieldBase(id) ==
    totalPrincipal = 0 \/ totalYieldShares = 0 \/ plans[id].principalDeposited = 0

\* C23: for every plan, whenever totalPrincipal is 0, totalYieldShares is 0
\* or the plan's principalDeposited is 0, getAccumulatedYield reports 0, and
\* claimYield by the owner is not rejected, credits 0 and changes no state.
C23_ZeroYieldIsNoOp ==
    /\ [](\A id \in 1..totalPlans :
            NoYieldBase(id)
            => /\ GetAccumulatedYield(id) = 0
               /\ ClaimYieldRevert(plans[id].owner, id) = "none"
               /\ CalculatedYield(plans[id]) = 0)
    /\ [][\A id \in 1..totalPlans :
            (NoYieldBase(id) /\ ClaimYield(plans[id].owner, id))
            => UNCHANGED vars]_vars

\* principal has been deducted for a plan and nothing has been placed with
\* the yield source, which is set and failing: the owner's claim is a no-op
C23_Witness ==
    \E id \in 1..totalPlans :
        /\ plans[id].principalDeposited > 0
        /\ totalYieldShares = 0
        /\ yieldProtocolSet /\ ypReverts
        /\ ClaimYieldRevert(plans[id].owner, id) = "none"

\* ------------------------------------------------------------------------
\* The life of a plan by every route: user1's plan is deducted from singly
\* or in a batch, misses deductions, is withdrawn from, matures, or is
\* closed by an emergency withdrawal in a paused contract.
LifecycleDays == 3
LifecycleHorizon == DAY + (LifecycleDays * DAY)

NextLifecycle ==
    \/ totalPlans = 0 /\ CreatePlan("user1", BatchDailyAmount, 0)
    \/ \E a \in {0, UnlimitedAllowance} : Approve("user1", a)
    \/ \E id \in 1..MaxPlans : ExecuteDeduction(id)
    \/ \E planIds \in ScheduleBatches : ExecuteDeductionsBatch(planIds)
    \/ \E id \in 1..totalPlans, a \in {0, EmergencyPartAmount} :
          Withdraw(plans[id].owner, id, a)
    \/ \E id \in 1..totalPlans : ClaimYield(plans[id].owner, id)
    \/ Pause(DEPLOYER)
    \/ Unpause(DEPLOYER)
    \/ \E id \in 1..totalPlans, a \in {0, EmergencyPartAmount} :
          ScheduleEmergencyWithdrawal(DEPLOYER, plans[id].owner, id, a, "reason")
    \/ \E wid \in WithdrawalIds : ExecuteEmergencyWithdrawal(DEPLOYER, wid)
    \/ \E wid \in WithdrawalIds : CancelEmergencyWithdrawal(DEPLOYER, wid)
    \/ Tick(DAY, LifecycleHorizon)
    \/ Tick(PLAN_DURATION_1_MONTH, Horizon)

SpecLifecycle == InitBatch /\ [][NextLifecycle]_vars

\* C24: in every reachable state exactly one of isActive and isCompleted is
\* true for every plan; no step of any operation takes a completed plan back:
\* isCompleted stays true and isActive false, and the plan's
\* successfulDeductions, missedDeductions, principalDeposited and
\* lastDeductionDate stay as they are.
C24_LifecycleFlags ==
    /\ [](\A id \in 1..totalPlans : plans[id].isActive # plans[id].isCompleted)
    /\ [][\A id \in 1..totalPlans :
            plans[id].isCompleted
            => /\ plans'[id].isCompleted /\ ~plans'[id].isActive
               /\ plans'[id].successfulDeductions = plans[id].successfulDeductions
               /\ plans'[id].missedDeductions = plans[id].missedDeductions
               /\ plans'[id].principalDeposited = plans[id].principalDeposited
               /\ plans'[id].lastDeductionDate = plans[id].lastDeductionDate]_vars

\* a completed plan at a time at which a deduction would be due on an
\* active one: executeDeduction is rejected and the batch passes it over
C24_Witness ==
    \E id \in 1..totalPlans :
        LET p == plans[id]
        IN  /\ p.isCompleted /\ ~p.isActive
            /\ p.successfulDeductions > 0 /\ p.missedDeductions > 0
            /\ ~paused /\ now < p.endDate
            /\ now >= ExpectedDeductionDate(p)
            /\ p.lastDeductionDate < ExpectedDeductionDate(p) - HOUR
            /\ ExecuteDeductionRevert(id) = "PlanNotActive"
            /\ BatchResult(<<id>>).plans = plans

Keepers == {DEPLOYER}

HarvestYieldRevert(caller) ==
    IF caller \notin Keepers THEN "AccessControlUnauthorizedAccount"
    ELSE IF ~yieldProtocolSet THEN "none"
    ELSE IF ypReverts THEN "YieldSourceReverted"
    ELSE IF ~ypHealthy THEN "YieldProtocolUnhealthy"
    ELSE "none"

\* the call gets past its three early returns
HarvestTakesEffect ==
    /\ yieldProtocolSet
    /\ now >= lastYieldHarvest + yieldHarvestInterval
    /\ MockGetBalance(ypTotalDeposited) > totalPrincipal

\* totalYield and userYield of harvestYield
HarvestTotalYield == MockGetBalance(ypTotalDeposited) - totalPrincipal

\* faulty variant: the user's share is taken of the source's whole balance
HarvestUserYieldOfBalance ==
    (MockGetBalance(ypTotalDeposited) * userYieldShareBps) \div BPS

HarvestUserYield == (HarvestTotalYield * userYieldShareBps) \div BPS

\* faulty variant: the interval since the last harvest is not looked at
HarvestYieldUnlimited(caller) ==
    /\ HarvestYieldRevert(caller) = "none"
    /\ IF yieldProtocolSet /\ MockGetBalance(ypTotalDeposited) > totalPrincipal
       THEN LET w == WithdrawFromYield(World, HarvestTotalYield)
            IN  /\ usdc' = w.bal
                /\ totalYieldShares' = w.tys
                /\ ypTotalDeposited' = w.dep
                /\ ypTotalShares' = w.tsh
                /\ ypShares' = w.shr
                /\ totalUserYield' = totalUserYield + HarvestUserYield
                /\ totalProtocolYield' =
                      totalProtocolYield + (HarvestTotalYield - HarvestUserYield)
                /\ lastYieldHarvest' = now
       ELSE UNCHANGED <<usdc, totalYieldShares, yieldVars, totalUserYield,
                        totalProtocolYield, lastYieldHarvest>>
    /\ UNCHANGED <<now, paused, minYieldDepositThreshold, emergencyWithdrawalDelay,
                   configVars, planVars, totalPrincipal, allowance, sourceVars,
                   emergencyVars>>

HarvestYield(caller) ==
    /\ HarvestYieldRevert(caller) = "none"
    /\ IF HarvestTakesEffect
       THEN LET w == WithdrawFromYield(World, HarvestTotalYield)
            IN  /\ usdc' = w.bal
                /\ totalYieldShares' = w.tys
                /\ ypTotalDeposited' = w.dep
                /\ ypTotalShares' = w.tsh
                /\ ypShares' = w.shr
                /\ totalUserYield' = totalUserYield + HarvestUserYield
                /\ totalProtocolYield' =
                      totalProtocolYield + (HarvestTotalYield - HarvestUserYield)
                /\ lastYieldHarvest' = now
       ELSE UNCHANGED <<usdc, totalYieldShares, yieldVars, totalUserYield,
                        totalProtocolYield, lastYieldHarvest>>
    /\ UNCHANGED <<now, paused, minYieldDepositThreshold, emergencyWithdrawalDelay,
                   configVars, planVars, totalPrincipal, allowance, sourceVars,
                   emergencyVars>>

\* ---------------------------------------------------- withdrawProtocolFees
\* to is an account, never address(0)
WithdrawProtocolFeesRevert(caller, amount) ==
    IF caller \notin DefaultAdmins THEN "AccessControlUnauthorizedAccount"
    ELSE IF amount > totalProtocolYield THEN "InvalidWithdrawalAmount"
    ELSE IF usdc[CONTRACT] < amount THEN "ERC20InsufficientBalance"
    ELSE "none"

WithdrawProtocolFees(caller, amount, to) ==
    /\ WithdrawProtocolFeesRevert(caller, amount) = "none"
    /\ totalProtocolYield' = totalProtocolYield - amount
    /\ usdc' = Transfer(usdc, CONTRACT, to, amount)
    /\ UNCHANGED <<now, paused, minYieldDepositThreshold, emergencyWithdrawalDelay,
                   configVars, planVars, totalPrincipal, totalUserYield,
                   totalYieldShares, lastYieldHarvest, allowance, yieldVars,
                   sourceVars, emergencyVars>>

\* ------------------------------------------------------------------------
\* Harvesting: user1's deductions are swept into the yield source, a keeper
\* harvests at any hour, and the admin draws protocol fees.
HarvestDays == 4
HarvestHorizon == DAY + (HarvestDays * DAY)
HarvestTicks == {12 * HOUR, DAY}
FeeAmount == 1

NextHarvest ==
    \/ totalPlans = 0 /\ CreatePlan("user1", DailyAmount, 0)
    \/ SetYieldProtocol(DEPLOYER, TRUE)
    \/ SetMinYieldDepositThreshold(DEPLOYER, SweepThreshold)
    \/ \E id \in 1..MaxPlans : ExecuteDeduction(id)
    \/ HarvestYield(DEPLOYER)
    \/ WithdrawProtocolFees(DEPLOYER, FeeAmount, DEPLOYER)
    \/ \E id \in 1..totalPlans : ClaimYield(plans[id].owner, id)
    \/ \E d \in HarvestTicks : Tick(d, HarvestHorizon)

SpecHarvest == Init /\ [][NextHarvest]_vars

\* C26 (as claimed): no step of any operation lowers totalUserYield or
\* totalProtocolYield.
C26_YieldTotalsNeverDecrease ==
    [][/\ totalUserYield' >= totalUserYield
       /\ totalProtocolYield' >= totalProtocolYield]_vars

\* the amounts a withdraw call on plan id is tried with: nothing, small
\* amounts, all the plan holds and one more than that
TriedAmounts(id) ==
    {0, 1, EmergencyPartAmount,
     plans[id].accumulatedBalance + plans[id].yieldEarned,
     plans[id].accumulatedBalance + plans[id].yieldEarned + 1}

C28_HarvestRateLimited ==
    /\ [][HarvestYield(DEPLOYER) =>
            /\ vars' # vars =>
                  /\ now >= lastYieldHarvest + yieldHarvestInterval
                  /\ lastYieldHarvest' = now
            /\ (\/ now < lastYieldHarvest + yieldHarvestInterval
                \/ MockGetBalance(ypTotalDeposited) <= totalPrincipal)
               => vars' = vars]_vars
    /\ [][lastYieldHarvest' # lastYieldHarvest =>
            /\ lastYieldHarvest' = now
            /\ lastYieldHarvest' >= lastYieldHarvest + yieldHarvestInterval]_vars

\* a second harvest has taken effect (each harvest of this specification
\* leaves one unit to the protocol), an interval or more after the first,
\* and a call made now, less than an interval later, is accepted and
\* changes nothing
C28_Witness ==
    /\ totalProtocolYield >= 2
    /\ lastYieldHarvest >= 2 * DAY + yieldHarvestInterval
    /\ now > lastYieldHarvest
    /\ now < lastYieldHarvest + yieldHarvestInterval
    /\ HarvestYieldRevert(DEPLOYER) = "none"
    /\ ~HarvestTakesEffect

\* C29: a harvestYield call that takes effect finds
\* totalYield = source balance - totalPrincipal above zero, adds
\* totalYield * userYieldShareBps / 10000, rounded down, to totalUserYield
\* and the rest of totalYield to totalProtocolYield, so that the two
\* additions sum to totalYield, and changes no plan record.
C29_HarvestSplit ==
    [][(HarvestYield(DEPLOYER) /\ vars' # vars) =>
          LET totalYield == MockGetBalance(ypTotalDeposited) - totalPrincipal
              userYield == (totalYield * userYieldShareBps) \div BPS
          IN  /\ totalYield > 0
              /\ totalUserYield' = totalUserYield + userYield
              /\ totalProtocolYield' = totalProtocolYield + (totalYield - userYield)
              /\ (totalUserYield' - totalUserYield)
                    + (totalProtocolYield' - totalProtocolYield) = totalYield
              /\ UNCHANGED <<planVars, totalPrincipal>>]_vars

\* a harvest has just split a yield of 5 at 9000 bps: 4 to the users, the
\* division rounding down, and 1 to the protocol
C29_Witness ==
    /\ lastYieldHarvest = now
    /\ userYieldShareBps = 9000
    /\ totalUserYield = 4
    /\ totalProtocolYield = 1
    /\ totalPlans = 1
    /\ plans[1].principalDeposited = 2 * DailyAmount
    /\ plans[1].yieldEarned = 0

\* ids no request was stored under: those a schedule call made now would
\* produce, where not in use, and one that no call produces
UnknownIds ==
    ({WithdrawalId(DEPLOYER, u, id, a, "reason") :
         u \in PlanCreators, id \in 1..MaxPlans, a \in {0, EmergencyPartAmount}}
     \cup {<<DEPLOYER, DEPLOYER, 0, 0, 0, "none">>}) \ WithdrawalIds

\* C30: no emergency withdrawal record has executed and cancelled both set.
\* For a caller holding EMERGENCY_ROLE: cancelEmergencyWithdrawal is
\* rejected on an executed record and on a cancelled one,
\* executeEmergencyWithdrawal is rejected on a cancelled record and on an
\* executed one, cancel is rejected with InvalidEmergencyWithdrawal on an
\* unknown id and so is execute while the system is paused (while it is not,
\* execute is rejected by whenPaused), and a cancel call on a record that is
\* neither executed nor cancelled is accepted, paused or not and before or
\* after executionTime, and sets cancelled only.
C30_ExecutedOrCancelled ==
    /\ [](/\ \A id \in WithdrawalIds :
                ~(emergencyWithdrawals[id].executed /\ emergencyWithdrawals[id].cancelled)
          /\ \A c \in EmergencyAdmins :
                /\ \A id \in WithdrawalIds :
                      LET req == emergencyWithdrawals[id]
                      IN  /\ req.executed =>
                               /\ CancelEmergencyWithdrawalRevert(c, id)
                                     = "EmergencyWithdrawalAlreadyExecuted"
                               /\ ExecuteEmergencyWithdrawalRevert(c, id) # "none"
                               /\ paused => ExecuteEmergencyWithdrawalRevert(c, id)
                                               = "EmergencyWithdrawalAlreadyExecuted"
                          /\ req.cancelled =>
                               /\ CancelEmergencyWithdrawalRevert(c, id)
                                     = "EmergencyWithdrawalIsCancelled"
                               /\ ExecuteEmergencyWithdrawalRevert(c, id) # "none"
                               /\ paused => ExecuteEmergencyWithdrawalRevert(c, id)
                                               = "EmergencyWithdrawalIsCancelled"
                          /\ (~req.executed /\ ~req.cancelled) =>
                               CancelEmergencyWithdrawalRevert(c, id) = "none"
                /\ \A id \in UnknownIds :
                      /\ CancelEmergencyWithdrawalRevert(c, id) = "InvalidEmergencyWithdrawal"
                      /\ ExecuteEmergencyWithdrawalRevert(c, id) # "none"
                      /\ paused => ExecuteEmergencyWithdrawalRevert(c, id)
                                      = "InvalidEmergencyWithdrawal")
    /\ [][\A c \in EmergencyAdmins, id \in WithdrawalIds :
            CancelEmergencyWithdrawal(c, id) =>
               /\ ~emergencyWithdrawals[id].executed
               /\ ~emergencyWithdrawals[id].cancelled
               /\ emergencyWithdrawals'[id].cancelled
               /\ ~emergencyWithdrawals'[id].executed]_vars

\* the system is not paused and the request was cancelled, its
\* executionTime has passed, and a second cancel and an execute call are
\* both rejected on it, as is a cancel call on an id not in use
C30_Witness ==
    /\ ~paused
    /\ \E j \in WithdrawalIds :
          /\ emergencyWithdrawals[j].cancelled
          /\ ~emergencyWithdrawals[j].executed
          /\ now >= emergencyWithdrawals[j].executionTime
          /\ CancelEmergencyWithdrawalRevert(DEPLOYER, j)
                = "EmergencyWithdrawalIsCancelled"
          /\ ExecuteEmergencyWithdrawalRevert(DEPLOYER, j) = "ExpectedPause"
    /\ \E u \in UnknownIds :
          CancelEmergencyWithdrawalRevert(DEPLOYER, u) = "InvalidEmergencyWithdrawal"

\* ---------------------------------------------------------------------
\* Emergency withdrawals from a plan that holds yield: one plan is funded,
\* the pool is swept into the source, the owner claims yield, which stays
\* recorded on the plan, and the admin withdraws for the owner while the
\* contract is paused.
RescueDays == 2
RescueHorizon == (RescueDays + 1) * DAY
\* tokens sent to the contract from outside, enough to pay a plan out of
\* the on-hand balance
RescueFunds == (2 * DailyAmount) + (2 * Surplus)
RescueAmounts == {0, PartAmount, (2 * DailyAmount) + 1, 4 * DailyAmount}

NextRescue ==
    \/ totalPlans = 0 /\ CreatePlan("user1", DailyAmount, 0)
    \/ SetYieldProtocol(DEPLOYER, TRUE)
    \/ SetMinYieldDepositThreshold(DEPLOYER, SweepThreshold)
    \/ \E id \in 1..MaxPlans : ExecuteDeduction(id)
    \/ \E id \in 1..totalPlans : ClaimYield(plans[id].owner, id)
    \/ TotalSupply = 2 * InitialFunds /\ Mint(CONTRACT, RescueFunds)
    \/ Pause(DEPLOYER)
    \/ SetEmergencyWithdrawalDelay(DEPLOYER, 0)
    \/ \E id \in 1..totalPlans, a \in RescueAmounts :
          ScheduleEmergencyWithdrawal(DEPLOYER, plans[id].owner, id, a, "reason")
    \/ \E id \in WithdrawalIds : ExecuteEmergencyWithdrawal(DEPLOYER, id)
    \/ Tick(DAY, RescueHorizon)
    \/ Tick(PLAN_DURATION_1_MONTH, Horizon)

SpecRescue == Init /\ [][NextRescue]_vars

\* the amount an emergency withdrawal for req is to pay
C31Paid(req) ==
    LET available ==
           plans[req.planId].accumulatedBalance + plans[req.planId].yieldEarned
    IN  IF req.amount = 0 THEN available ELSE Min(req.amount, available)

\* C31: a successful executeEmergencyWithdrawal pays the user
\* min(requested amount, accumulatedBalance + yieldEarned), a requested
\* amount of 0 standing for the whole; it takes the amount from
\* accumulatedBalance first and from yieldEarned only the part above
\* accumulatedBalance, so that accumulatedBalance + yieldEarned falls by
\* the amount paid; and it leaves the plan with isActive = FALSE and
\* isCompleted = TRUE.
C31_EmergencyPayout ==
    [][\A id \in WithdrawalIds :
         ExecuteEmergencyWithdrawal(DEPLOYER, id) =>
            LET req == emergencyWithdrawals[id]
                p == plans[req.planId]
                q == plans'[req.planId]
                paid == C31Paid(req)
            IN  /\ usdc'[req.user] = usdc[req.user] + paid
                /\ q.accumulatedBalance = p.accumulatedBalance - Min(paid, p.accumulatedBalance)
                /\ q.yieldEarned = p.yieldEarned - (paid - Min(paid, p.accumulatedBalance))
                /\ q.accumulatedBalance + q.yieldEarned
                      = (p.accumulatedBalance + p.yieldEarned) - paid
                /\ ~q.isActive
                /\ q.isCompleted]_vars

\* a request for more than the plan's principal and less than all it held
\* was executed on a plan holding yield: the principal is gone, part of the
\* yield is left, and the plan is closed
C31_Witness ==
    \E id \in WithdrawalIds :
        LET req == emergencyWithdrawals[id]
            p == plans[req.planId]
        IN  /\ req.executed
            /\ executedCount[id] = 1
            /\ req.amount # 0
            /\ p.accumulatedBalance = 0
            /\ p.yieldEarned > 0
            /\ ~p.isActive
            /\ p.isCompleted

\* ---------------------------------------------------------------------
\* The sweep of executeDeduction against a source that turns unhealthy and
\* a source whose deposit fails.
\* MockYieldProtocol.setHealthy(_healthy): anyone may call it
SetHealthy(healthy) ==
    /\ ypHealthy # healthy
    /\ ypHealthy' = healthy
    /\ UNCHANGED <<now, paused, minYieldDepositThreshold, emergencyWithdrawalDelay,
                   configVars, planVars, poolVars, tokenVars, yieldVars,
                   yieldProtocolSet, ypReverts, ypFailing, emergencyVars>>

\* the calls of IYieldProtocol that SavingsPlan makes inside a try
SourceCalls == {"deposit", "withdraw", "emergencyWithdraw"}

\* a call of the source starts to revert, and stops
CallFails(f) ==
    /\ f \notin ypFailing
    /\ ypFailing' = ypFailing \cup {f}
    /\ UNCHANGED <<now, paused, minYieldDepositThreshold, emergencyWithdrawalDelay,
                   configVars, planVars, poolVars, tokenVars, yieldVars,
                   yieldProtocolSet, ypHealthy, ypReverts, emergencyVars>>

CallRecovers(f) ==
    /\ f \in ypFailing
    /\ ypFailing' = ypFailing \ {f}
    /\ UNCHANGED <<now, paused, minYieldDepositThreshold, emergencyWithdrawalDelay,
                   configVars, planVars, poolVars, tokenVars, yieldVars,
                   yieldProtocolSet, ypHealthy, ypReverts, emergencyVars>>

SweepDays == 4
SweepHorizon == SweepDays * DAY

NextSweep ==
    \/ totalPlans = 0 /\ CreatePlan("user1", DailyAmount, 0)
    \/ \E set \in BOOLEAN : SetYieldProtocol(DEPLOYER, set)
    \/ SetMinYieldDepositThreshold(DEPLOYER, SweepThreshold)
    \/ \E id \in 1..MaxPlans : ExecuteDeduction(id)
    \/ \E healthy \in BOOLEAN : SetHealthy(healthy)
    \/ CallFails("deposit")
    \/ CallRecovers("deposit")
    \/ Tick(DAY, SweepHorizon)

SpecSweep == Init /\ [][NextSweep]_vars

\* a step of executeDeduction(id) that recorded a deduction
C32Deducted(id) ==
    /\ ExecuteDeduction(id)
    /\ plans'[id].successfulDeductions = plans[id].successfulDeductions + 1

\* C32: a successful executeDeduction moves funds into the yield source
\* only when a source is configured, the on-hand balance, the new
\* dailyAmount included, is at least minYieldDepositThreshold and the
\* source reports healthy, and then it moves the whole on-hand balance;
\* when under these conditions the deposit call fails, the deduction is
\* recorded all the same, the funds stay on hand and totalYieldShares and
\* the source are unchanged; when the source reports unhealthy nothing is
\* deposited.
C32_SweepOnlyWhenHealthy ==
    [][\A id \in 1..totalPlans :
         C32Deducted(id) =>
            LET onHand == usdc[CONTRACT] + plans[id].dailyAmount
                due == /\ yieldProtocolSet
                       /\ onHand >= minYieldDepositThreshold
                       /\ ypHealthy
            IN  /\ (usdc'[YIELD] # usdc[YIELD] \/ totalYieldShares' # totalYieldShares)
                      => due
                /\ (due /\ "deposit" \notin ypFailing) =>
                      /\ usdc'[CONTRACT] = 0
                      /\ usdc'[YIELD] = usdc[YIELD] + onHand
                      /\ totalYieldShares' = totalYieldShares + onHand
                /\ (due /\ "deposit" \in ypFailing) =>
                      /\ plans'[id].accumulatedBalance
                            = plans[id].accumulatedBalance + plans[id].dailyAmount
                      /\ totalPrincipal' = totalPrincipal + plans[id].dailyAmount
                      /\ usdc'[CONTRACT] = onHand
                      /\ totalYieldShares' = totalYieldShares
                      /\ UNCHANGED yieldVars
                /\ ~ypHealthy =>
                      /\ usdc'[CONTRACT] = onHand
                      /\ usdc'[YIELD] = usdc[YIELD]
                      /\ totalYieldShares' = totalYieldShares
                      /\ UNCHANGED yieldVars]_vars

\* funds were swept into a configured source once, and two later
\* deductions, the last of them made now, have left their funds on hand,
\* above the threshold, with a source whose deposit fails
C32_Witness ==
    /\ yieldProtocolSet
    /\ ypHealthy
    /\ "deposit" \in ypFailing
    /\ totalYieldShares > 0
    /\ usdc[CONTRACT] >= minYieldDepositThreshold
    /\ totalPlans = 1
    /\ plans[1].lastDeductionDate = now
    /\ plans[1].principalDeposited = totalYieldShares + usdc[CONTRACT]

\* ---------------------------------------------------------------------
\* The deposit of executeDeductionsBatch: two owners each hold a plan,
\* deductions are made singly and in batches, and the source turns
\* unhealthy or fails to take deposits.
BatchSweepDays == 2
BatchSweepHorizon == DAY + (BatchSweepDays * DAY)

NextBatchSweep ==
    \/ \E c \in PlanCreators :
          userPlans[c] = <<>> /\ CreatePlan(c, DailyAmount, 0)
    \/ SetYieldProtocol(DEPLOYER, TRUE)
    \/ SetMinYieldDepositThreshold(DEPLOYER, SweepThreshold)
    \/ \E id \in 1..MaxPlans : ExecuteDeduction(id)
    \/ \E planIds \in BatchLists : ExecuteDeductionsBatch(planIds)
    \/ \E healthy \in BOOLEAN : SetHealthy(healthy)
    \/ CallFails("deposit")
    \/ CallRecovers("deposit")
    \/ Tick(DAY, BatchSweepHorizon)

SpecBatchSweep == Init /\ [][NextBatchSweep]_vars

\* C33: executeDeductionsBatch makes at most one deposit to the yield
\* source, sized to the funds the batch collected (the on-hand balance
\* after the loop less the on-hand balance before it): what reaches the
\* source is either nothing or exactly what the batch collected, and it is
\* credited to totalYieldShares once.  A batch deposits only when a source
\* is configured, the on-hand balance after the loop is at least
\* minYieldDepositThreshold and the source reports healthy; a batch that
\* collected nothing deposits nothing.
C33_BatchDepositsNetNewFunds ==
    [][\A planIds \in BatchLists :
         ExecuteDeductionsBatch(planIds) =>
            LET collected == totalPrincipal' - totalPrincipal
                after == usdc[CONTRACT] + collected
                deposited == usdc'[YIELD] - usdc[YIELD]
                may == /\ yieldProtocolSet
                       /\ after >= minYieldDepositThreshold
                       /\ ypHealthy
            IN  /\ deposited \in {0, collected}
                /\ totalYieldShares' = totalYieldShares + deposited
                /\ usdc'[CONTRACT] = after - deposited
                /\ deposited > 0 => may
                /\ (may /\ "deposit" \notin ypFailing) => deposited = collected
                /\ (collected = 0 \/ ~may) =>
                      /\ deposited = 0
                      /\ UNCHANGED yieldVars]_vars

\* a batch that deducted from both plans has just deposited what it
\* collected and left in the contract the funds that were on hand before
C33_Witness ==
    /\ totalPlans = 2
    /\ plans[1].lastDeductionDate = now
    /\ plans[2].lastDeductionDate = now
    /\ totalYieldShares = 2 * DailyAmount
    /\ usdc[YIELD] = 2 * DailyAmount
    /\ usdc[CONTRACT] = 2 * DailyAmount
    /\ totalPrincipal = 4 * DailyAmount

\* ---------------------------------------------------------------------
\* _withdrawFromYield against a source whose withdraw, or whose withdraw
\* and emergencyWithdraw, revert: the pool of one plan is swept into the
\* source, the keeper harvests and the owner withdraws.
RedeemDays == 3
RedeemHorizon == DAY + (RedeemDays * DAY)

NextRedeem ==
    \/ totalPlans = 0 /\ CreatePlan("user1", DailyAmount, 0)
    \/ SetYieldProtocol(DEPLOYER, TRUE)
    \/ SetMinYieldDepositThreshold(DEPLOYER, SweepThreshold)
    \/ \E id \in 1..MaxPlans : ExecuteDeduction(id)
    \/ HarvestYield(DEPLOYER)
    \/ \E id \in 1..totalPlans, a \in {0, PartAmount} :
          Withdraw(plans[id].owner, id, a)
    \/ \E f \in {"withdraw", "emergencyWithdraw"} : CallFails(f)
    \/ \E f \in {"withdraw", "emergencyWithdraw"} : CallRecovers(f)
    \/ Tick(DAY, RedeemHorizon)

SpecRedeem == Init /\ [][NextRedeem]_vars

\* the shares _withdrawFromYield(amount) asks the source to redeem
C34Shares(amount) ==
    Min((amount * totalYieldShares) \div MockGetBalance(ypTotalDeposited),
        totalYieldShares)

\* C34: _withdrawFromYield(amount), as called by a harvest that takes
\* effect, redeems min(amount * totalYieldShares / source balance,
\* totalYieldShares) shares and, when the redeem call succeeds, lowers
\* totalYieldShares by that count, never below 0; when the redeem call
\* fails, emergencyWithdraw is called once: if it succeeds the source is
\* emptied into the contract and totalYieldShares is 0, and if it fails
\* too totalYieldShares, the balances and the source are unchanged.
C34_RedeemAndFallback ==
    /\ [](totalYieldShares >= 0)
    /\ [][(HarvestYield(DEPLOYER) /\ HarvestTakesEffect /\ totalYieldShares > 0) =>
            LET s == C34Shares(HarvestTotalYield)
            IN  /\ s <= totalYieldShares
                /\ ~MockWithdrawReverts(World, s) =>
                      /\ totalYieldShares' = totalYieldShares - s
                      /\ ypShares' = ypShares - s
                      /\ usdc'[CONTRACT] = usdc[CONTRACT] + MockWithdrawAmount(World, s)
                /\ (MockWithdrawReverts(World, s) /\ "emergencyWithdraw" \notin ypFailing) =>
                      /\ totalYieldShares' = 0
                      /\ usdc'[YIELD] = 0
                      /\ usdc'[CONTRACT] = usdc[CONTRACT] + usdc[YIELD]
                /\ (MockWithdrawReverts(World, s) /\ "emergencyWithdraw" \in ypFailing) =>
                      /\ totalYieldShares' = totalYieldShares
                      /\ UNCHANGED <<usdc, yieldVars>>]_vars

\* a harvest made now found the source's withdraw failing and fell back on
\* emergencyWithdraw: the source is empty, the contract holds what it held,
\* and totalYieldShares is 0 while the source still records the shares
C34_Witness ==
    /\ lastYieldHarvest = now
    /\ "withdraw" \in ypFailing
    /\ "emergencyWithdraw" \notin ypFailing
    /\ totalYieldShares = 0
    /\ ypShares > 0
    /\ usdc[YIELD] = 0
    /\ usdc[CONTRACT] >= SweepThreshold

\* C35 (as claimed): a batch whose list names a plan more than once makes
\* at most one deduction on that plan, at whatever time it is run.
C35_BatchChargesOncePerPlan ==
    [][\A planIds \in ScheduleBatches :
         ExecuteDeductionsBatch(planIds) =>
            \A id \in 1..totalPlans :
               /\ plans'[id].successfulDeductions <= plans[id].successfulDeductions + 1
               /\ plans'[id].principalDeposited
                     <= plans[id].principalDeposited + plans[id].dailyAmount]_vars

\* getNextDeductionDate(planId), for a valid planId
GetNextDeductionDate(planId) ==
    LET p == plans[planId]
    IN  IF ~p.isActive \/ p.isCompleted THEN 0
        ELSE IF now > p.endDate THEN 0
        ELSE p.startDate + ((p.successfulDeductions + 1) * DAY)

\* C36 (as claimed): for an active plan before maturity
\* getNextDeductionDate returns the instant executeDeduction expects the
\* plan's next deduction at, startDate + successfulDeductions * 1 day, and
\* it returns 0 for a plan that is inactive or completed.
C36_ViewMatchesSchedule ==
    \A id \in 1..totalPlans :
        LET p == plans[id]
        IN  /\ (~p.isActive \/ p.isCompleted) => GetNextDeductionDate(id) = 0
            /\ (p.isActive /\ ~p.isCompleted /\ now < p.endDate) =>
                  GetNextDeductionDate(id) = ExpectedDeductionDate(p)

\* C37 (as claimed): no reachable state has an active plan, before its
\* endDate, whose last deduction was made at or after
\* startDate + successfulDeductions * 1 day - 1 hour, the state in which
\* executeDeduction is rejected with DeductionAlreadyExecuted at every later
\* time before maturity.
C37_DeductionNeverBlocksSchedule ==
    \A id \in 1..totalPlans :
        LET p == plans[id]
        IN  (p.isActive /\ now < p.endDate /\ p.lastDeductionDate > 0)
            => p.lastDeductionDate < ExpectedDeductionDate(p) - HOUR

\* the sum over all plans of accumulatedBalance + yieldEarned
RecordedClaims ==
    SumOver([i \in 1..totalPlans |->
                plans[i].accumulatedBalance + plans[i].yieldEarned], 1..totalPlans)

\* C38 (as claimed): in every reachable state the on-hand token balance
\* plus the yield source's balance is at least the sum over all plans of
\* accumulatedBalance + yieldEarned.
C38_Solvent ==
    usdc[CONTRACT] + (IF yieldProtocolSet THEN MockGetBalance(ypTotalDeposited) ELSE 0)
       >= RecordedClaims

\* the principal the plans have taken in (principalDeposited is cumulative)
PrincipalTakenIn ==
    SumOver([i \in 1..totalPlans |-> plans[i].principalDeposited], 1..totalPlans)

\* what withdraw, claimYield and executeEmergencyWithdrawal have transferred
\* to the plan owners: what the owners hold beyond their initial funds, and
\* the principal they paid in
PaidToOwners ==
    SumOver([c \in PlanCreators |-> usdc[c] - InitialFunds], PlanCreators)
       + PrincipalTakenIn

\* C39 (as claimed): the amount transferred to plan owners by withdraw,
\* claimYield and executeEmergencyWithdrawal never exceeds the principal
\* deposited plus the yield ever credited to yieldEarned (which, where
\* nothing is harvested, is totalUserYield): no yield is paid twice.
C39_PaidAtMostDepositedPlusYield ==
    PaidToOwners <= PrincipalTakenIn + totalUserYield

\* C40: a plan is never charged ahead of its schedule: in every state,
\* successfulDeductions <= floor((now - startDate + 1 hour) / 1 day) + 1 for
\* every plan, the deductions having been made by executeDeduction and by
\* executeDeductionsBatch, lists naming the plan twice included.
C40_NeverChargedAhead ==
    \A id \in 1..totalPlans :
        plans[id].successfulDeductions
           <= (((now - plans[id].startDate) + HOUR) \div DAY) + 1

\* a plan charged as far ahead as the schedule allows: its third deduction
\* was made now, an hour before the third day of the plan begins
C40_Witness ==
    \E id \in 1..totalPlans :
        /\ plans[id].successfulDeductions = 3
        /\ plans[id].lastDeductionDate = now
        /\ now = (plans[id].startDate + (2 * DAY)) - HOUR
        /\ plans[id].successfulDeductions
              = (((now - plans[id].startDate) + HOUR) \div DAY) + 1

====
